---- MODULE Spec2Model ----
(***************************************************************************)
(* Onekey: the resolution-and-acquisition pipeline.                        *)
(*   - get_latest_repo_info  (src/common/main_func.py): the resolver       *)
(*   - Downloader.get        (src/common/dl.py): the mirror downloader     *)
(*   - depotkey_merge        (src/common/dkey_merge.py): the config merger *)
(*   - greenluma_add         (src/common/unlock.py): the slot allocator    *)
(*   - check_github_api_rate_limit (src/common/check.py): the rate limiter *)
(*   - get_manifest (src/common/get_manifest_info.py): the extractor       *)
(* Each component has its own specification over the shared variables:     *)
(* SpecResolve, SpecFetch, SpecMerge, SpecAlloc, SpecQuota, SpecExtract,   *)
(* SpecKeyVdf for the parsing of Key.vdf, SpecShare for one Downloader     *)
(* used by concurrent tasks, and SpecLoop for main_loop (src/main.py).     *)
(***************************************************************************)
EXTENDS Integers, Sequences, FiniteSets, TLC

----------------------------------------------------------------------------
(* Bounds of the model *)

\* number of candidate repositories handed to get_latest_repo_info
NumRepos == 3
\* author dates are two-character strings over the characters 0..MaxDigit
MaxDigit == 1
\* number of distinct cache keys (repo@sha/path) fetched through one Downloader
NumKeys == 2
\* number of distinct artifact contents a mirror can serve
NumBytes == 2
\* number of distinct depot ids in config.vdf and in the merged records
NumDepots == 2
\* number of slot files AppList may hold before a call
NumSlots == 2
\* number of distinct ids handed to greenluma_add
NumValues == 2
\* longest depot_id_list handed to greenluma_add
MaxRequest == 2
\* last reading of the monotonic clock
MaxTime == 64
\* number of .manifest paths in the tree
NumManifests == 2
\* number of identifiers main_loop asks for
MaxPrompts == 3

VARIABLES
    \* ---- get_latest_repo_info ----
    responses,      \* what each candidate's branch lookup will answer
    results,        \* the slots asyncio.gather fills, in input order
    btask,          \* per candidate, how far its fetch_branch_info task is
    out_of_order,   \* whether a task completed before one earlier in the list
    rpc,            \* position in get_latest_repo_info
    ri,             \* position of the zip(repos, results) loop
    latest_date,    \* local latest_date
    selected_repo,  \* local selected_repo (0 is None)
    \* ---- Downloader ----
    IS_CN,          \* os.environ['IS_CN'] == 'yes'
    wanted,         \* the cache keys the callers of this process ask for
    cache_dir,      \* whether the Downloader was constructed with a cache_dir
    memory_cache,   \* self.memory_cache
    disk_cache,     \* the files under cache_dir, one per cache key
    fpc,            \* position in Downloader.get
    cache_key,      \* local cache_key of the get in progress (0 when idle)
    url_list,       \* local url_list
    retry_count,    \* local retry_count
    errors,         \* local errors (the URL of each recorded message)
    remaining_urls, \* local remaining_urls
    current_errors, \* local current_errors
    round_urls,     \* the snapshot list(remaining_urls) the for loop walks
    ui,             \* position of the for loop in round_urls
    content,        \* what get returns (NoEntry until it returns)
    raised,         \* the exception get ends with ("none" until it raises)
    \* history of the get in progress
    reqCount,       \* requests issued per URL
    rounds,         \* outer rounds started
    roundReqs,      \* URLs requested in the current round, in order
    notFound,       \* URLs that answered 404
    diskWrite,      \* how _write_cache's disk write ended: none, ok, failed
    wasFetched,     \* whether an earlier get of cache_key had succeeded
    firstBytes,     \* per key, the bytes its first successful get returned
    \* ---- depotkey_merge ----
    config_file,    \* what config_path holds
    temp_file,      \* what the sibling temp_path holds
    lock,           \* dkey_merge.lock: the task holding it, or "free"
    merge_tasks,    \* the tasks that call depotkey_merge
    merge_inputs,   \* the depots_config maps they pass
    mpc,            \* per task, its position in depotkey_merge
    depots_config,  \* per task, the 'depots' map of its argument
    config,         \* per task, local config after the update
    mresult,        \* per task, the value returned or the exception raised
    \* history of each call
    cause,          \* what ended the call
    \* ---- greenluma_add ----
    app_list,       \* steam_path/AppList: per index, what <index>.txt holds
    initial_list,   \* AppList before the first call
    scandir_iterable, \* whether async for accepts what aios.scandir returns
    unlock_lock,    \* unlock.lock: the task holding it, or "free"
    alloc_tasks,    \* the tasks that call greenluma_add
    apc,            \* per task, its position in greenluma_add
    depot_id_list,  \* per task, the argument
    depot_dict,     \* per task, local depot_dict
    ai,             \* per task, the position of the for loop in depot_id_list
    aresult,        \* per task, the value returned
    acause,         \* per task, what ended the call
    overlapped,     \* whether a call started while another was under way
    \* ---- check_github_api_rate_limit ----
    now,            \* time.monotonic()
    q_cache,        \* rate_limit_cache._cache
    last_update,    \* rate_limit_cache._last_update
    qpc,            \* position in check_github_api_rate_limit
    attempt,        \* the loop variable attempt
    qwait,          \* the sleep being awaited
    \* history of the call in progress
    qreqs,          \* quota-check requests issued
    qwaits,         \* the sleeps taken, in order
    qresult,        \* "returned", or the exception the call ended with
    used_cache,     \* whether the call returned from the cached snapshot
    last_outcome,   \* what the last request ended in
    all_refused,    \* whether every request of the call got a status other than 200, 401, 403
    \* ---- get_manifest ----
    depotcache,     \* steam_path/depotcache: per manifest path, the file
    epc,            \* per path, the position of its get_manifest call
    econtent,       \* per path, local content
    eresult,        \* per path, the list returned or the exception raised
    efetches,       \* per path, the calls of get made by the call
    key_source,     \* the Key.vdf of the tree
    collected_depots, \* the list the call for Key.vdf returned
    named_depot,    \* the depot its error log named
    \* ---- Downloader.get, called concurrently ----
    share_tasks,    \* the tasks that call get on the one Downloader
    gpc,            \* per task, its position in get
    gkey,           \* per task, cache_key
    gcontent,       \* per task, the bytes get is returning
    cache_writes,   \* per key, the stores into memory_cache so far
    \* ---- main_loop ----
    lpc,            \* position in main_loop and main
    prompts,        \* identifiers asked for so far
    run_outcome,    \* what the last run of main returned or raised
    exit_cause,     \* what ended main_loop
    is_steam_tools, \* main_func.is_steam_tools
    is_green_luma,  \* main_func.is_green_luma
    passed,         \* the awaits of this run of main that gave what it needs
    tree_results,   \* per tree entry, what its get_manifest task came to
    sinks           \* the sinks this run of main has called

resolveVars ==
    <<responses, results, btask, out_of_order, rpc, ri, latest_date,
      selected_repo>>

fetchVars == <<IS_CN, wanted, cache_dir, memory_cache, disk_cache, fpc, cache_key, url_list,
               retry_count, errors, remaining_urls, current_errors, round_urls,
               ui, content, raised, reqCount, rounds, roundReqs, notFound,
               diskWrite, wasFetched, firstBytes>>

mergeVars == <<config_file, temp_file, lock, merge_tasks, merge_inputs, mpc,
               depots_config, config, mresult, cause>>

allocVars == <<app_list, initial_list, scandir_iterable, unlock_lock, alloc_tasks,
               apc, depot_id_list, depot_dict, ai, aresult, acause, overlapped>>

quotaVars == <<now, q_cache, last_update, qpc, attempt, qwait, qreqs, qwaits,
               qresult, used_cache, last_outcome, all_refused>>

keyVars == <<key_source, collected_depots, named_depot>>
extractVars == <<depotcache, epc, econtent, eresult, efetches, keyVars>>

shareVars == <<share_tasks, gpc, gkey, gcontent, cache_writes>>

loopVars ==
    <<lpc, prompts, run_outcome, exit_cause, is_steam_tools, is_green_luma,
      passed, tree_results, sinks>>

vars ==
    <<resolveVars, fetchVars, mergeVars, allocVars, quotaVars, extractVars,
      shareVars, loopVars>>

notLoopVars ==
    <<resolveVars, fetchVars, mergeVars, allocVars, quotaVars, extractVars,
      shareVars>>

notResolveVars == <<fetchVars, mergeVars, allocVars, quotaVars, extractVars,
      shareVars, loopVars>>
notFetchVars == <<resolveVars, mergeVars, allocVars, quotaVars, extractVars,
      shareVars, loopVars>>
notMergeVars == <<resolveVars, fetchVars, allocVars, quotaVars, extractVars,
      shareVars, loopVars>>
notAllocVars == <<resolveVars, fetchVars, mergeVars, quotaVars, extractVars,
      shareVars, loopVars>>
notQuotaVars == <<resolveVars, fetchVars, mergeVars, allocVars, extractVars,
      shareVars, loopVars>>
notExtractVars == <<resolveVars, fetchVars, mergeVars, allocVars, quotaVars,
      shareVars, loopVars>>

\* CACHE_EXPIRE_TIME
CACHE_EXPIRE_TIME == 60
\* max_retries
MaxRetries == 3

----------------------------------------------------------------------------
(* RepoResolver: fetch_branch_info / get_latest_repo_info *)

\* repos: the candidates, named by their index in the input list
Repos == 1..NumRepos

\* Python strings are sequences of characters; None is kept apart from ""
EmptyStr == << >>
NoneDate == << -1 >>
Dates == (0..MaxDigit) \X (0..MaxDigit)

\* fetch_branch_info returns None (non-200, ClientError, other exception) ...
FailedResponse == [kind |-> "failed", date |-> NoneDate]
\* ... or the JSON body: without 'commit' ...
NoCommitResponse == [kind |-> "nocommit", date |-> NoneDate]
\* ... or with commit.commit.author.date
CommitResponse(d) == [kind |-> "commit", date |-> d]
Pending == [kind |-> "pending", date |-> NoneDate]

BranchResponses ==
    {FailedResponse, NoCommitResponse} \cup {CommitResponse(d) : d \in Dates}

Min(a, b) == IF a < b THEN a ELSE b

\* Python's str > str: lexicographic, a proper extension is greater
StrGreater(a, b) ==
    \/ \E i \in 1..Min(Len(a), Len(b)) :
          /\ a[i] > b[i]
          /\ \A j \in 1..(i - 1) : a[j] = b[j]
    \/ /\ Len(a) > Len(b)
       /\ \A j \in 1..Len(b) : a[j] = b[j]

\* Python truthiness of latest_date: None and "" are falsy
Falsy(d) == d = NoneDate \/ d = EmptyStr

AnyResponse(r) == TRUE

\* r_json and r_json.get('commit')
HasCommit(r) == r.kind = "commit"

NewerOrEqual(commit_date, latest) ==
    Falsy(latest) \/ StrGreater(commit_date, latest) \/ commit_date = latest

\* not latest_date or commit_date > latest_date
Newer(commit_date, latest) ==
    Falsy(latest) \/ StrGreater(commit_date, latest)

CompletionSlot(i, completed) == completed + 1

\* asyncio.gather returns the results in the order of the awaitables given,
\* whatever the order they complete in
ResultSlot(i, completed) == i

ResolveInit ==
    /\ responses \in [Repos -> BranchResponses]
    /\ results = [i \in Repos |-> Pending]
    /\ btask = [i \in Repos |-> "created"]
    /\ out_of_order = FALSE
    /\ rpc = "gather"
    /\ ri = 0
    /\ latest_date = NoneDate
    /\ selected_repo = 0

\* a gathered fetch_branch_info task runs up to its session.get: the request
\* of candidate i is sent
SendBranchRequest(i) ==
    /\ rpc = "gather"
    /\ btask[i] = "created"
    /\ btask' = [btask EXCEPT ![i] = "sent"]
    /\ UNCHANGED <<responses, results, out_of_order, rpc, ri, latest_date,
                   selected_repo>>
    /\ UNCHANGED notResolveVars

\* one of the gathered fetch_branch_info tasks completes; gather keeps input order
FetchBranchInfo(i) ==
    /\ rpc = "gather"
    /\ btask[i] = "sent"
    /\ btask' = [btask EXCEPT ![i] = "done"]
    /\ results' =
          [results EXCEPT
             ![ResultSlot(i, Cardinality({j \in Repos : btask[j] = "done"}))] =
                responses[i]]
    /\ out_of_order' =
          (out_of_order \/ \E j \in Repos : j < i /\ btask[j] # "done")
    /\ UNCHANGED <<responses, rpc, ri, latest_date, selected_repo>>
    /\ UNCHANGED notResolveVars

\* await asyncio.gather(*tasks) returns; latest_date = None; selected_repo = None
GatherDone ==
    /\ rpc = "gather"
    /\ \A i \in Repos : btask[i] = "done"
    /\ rpc' = "loop"
    /\ ri' = 1
    /\ latest_date' = NoneDate
    /\ selected_repo' = 0
    /\ UNCHANGED <<responses, results, btask, out_of_order>>
    /\ UNCHANGED notResolveVars

\* one iteration of: for repo, r_json in zip(repos, results)
SelectStep ==
    /\ rpc = "loop"
    /\ ri \in Repos
    /\ IF HasCommit(results[ri]) /\ Newer(results[ri].date, latest_date)
          THEN /\ latest_date' = results[ri].date
               /\ selected_repo' = ri
          ELSE UNCHANGED <<latest_date, selected_repo>>
    /\ ri' = ri + 1
    /\ UNCHANGED <<responses, results, btask, out_of_order, rpc>>
    /\ UNCHANGED notResolveVars

\* return selected_repo, latest_date
ResolveReturn ==
    /\ rpc = "loop"
    /\ ri = NumRepos + 1
    /\ rpc' = "done"
    /\ UNCHANGED <<responses, results, btask, out_of_order, ri, latest_date,
                   selected_repo>>
    /\ UNCHANGED notResolveVars

NextResolve ==
    \/ \E i \in Repos : SendBranchRequest(i)
    \/ \E i \in Repos : FetchBranchInfo(i)
    \/ GatherDone
    \/ SelectStep
    \/ ResolveReturn


----------------------------------------------------------------------------
(* MirrorDownloader: Downloader.get and its cache *)

Keys == 1..NumKeys

\* artifact contents; Partial is what a disk write that failed midway leaves
Bytes == 1..NumBytes
Partial == 0
NoEntry == -1

\* get_cn_urls returns five mirror URLs, get_default_url one
NumCnUrls == 5
\* retry_count = 3
RetryCount == 3

Urls == 1..NumCnUrls

\* url_list: the mirrors when IS_CN == 'yes', else the canonical URL alone
UrlList(is_cn) == IF is_cn THEN [i \in 1..NumCnUrls |-> i] ELSE << 1 >>

Range(s) == {s[i] : i \in 1..Len(s)}

RECURSIVE Without(_, _)
LeaveUrl(s, u) == s

\* remaining_urls.remove(url)
Without(s, u) ==
    IF s = << >> THEN << >>
    ELSE IF Head(s) = u THEN Tail(s)
    ELSE << Head(s) >> \o Without(Tail(s), u)

SkipMemory(mc, key, bytes) == mc

\* self.memory_cache[cache_key] = content
StoreMemory(mc, key, bytes) == [mc EXCEPT ![key] = bytes]

NeverDecrement(rc, cur) == rc

\* if current_errors: retry_count -= 1
AfterRound(rc, cur) == IF cur # << >> THEN rc - 1 ELSE rc

NoHistory == [u \in Urls |-> 0]

FetchIdle ==
    /\ fpc = "idle"
    /\ cache_key = 0
    /\ url_list = << >>
    /\ retry_count = 0
    /\ errors = << >>
    /\ remaining_urls = << >>
    /\ current_errors = << >>
    /\ round_urls = << >>
    /\ ui = 0
    /\ content = NoEntry
    /\ raised = "none"
    /\ reqCount = NoHistory
    /\ rounds = 0
    /\ roundReqs = << >>
    /\ notFound = {}
    /\ diskWrite = "none"
    /\ wasFetched = FALSE

\* Downloader.__init__: an empty memory cache; the cache directory, when one is
\* configured, holds whatever earlier processes left there
\* The mirror list is explored for one artifact, several artifacts with the
\* canonical URL.
FetchInit ==
    /\ \/ IS_CN = TRUE /\ wanted = {1}
       \/ IS_CN = FALSE /\ wanted = Keys
    /\ cache_dir \in BOOLEAN
    /\ memory_cache = [k \in Keys |-> NoEntry]
    /\ disk_cache \in [Keys -> {NoEntry, Partial} \cup Bytes]
    /\ (~cache_dir => disk_cache = [k \in Keys |-> NoEntry])
    /\ firstBytes = [k \in Keys |-> NoEntry]
    /\ FetchIdle

localsUnchanged ==
    UNCHANGED <<notFetchVars, url_list, retry_count, errors, remaining_urls, current_errors,
                round_urls, ui, reqCount, rounds, roundReqs, notFound, diskWrite>>

\* get(...): cache_key; _try_read_cache finds the key in memory
GetMemoryHit(key) ==
    /\ fpc = "idle"
    /\ memory_cache[key] # NoEntry
    /\ cache_key' = key
    /\ wasFetched' = (firstBytes[key] # NoEntry)
    /\ content' = memory_cache[key]
    /\ fpc' = "returned"
    /\ UNCHANGED <<IS_CN, wanted, cache_dir, memory_cache, disk_cache, raised, firstBytes>>
    /\ localsUnchanged

\* _try_read_cache reads the disk entry and populates the memory cache
GetDiskHit(key) ==
    /\ fpc = "idle"
    /\ memory_cache[key] = NoEntry
    /\ cache_dir
    /\ disk_cache[key] # NoEntry
    /\ cache_key' = key
    /\ wasFetched' = (firstBytes[key] # NoEntry)
    /\ memory_cache' = StoreMemory(memory_cache, key, disk_cache[key])
    /\ content' = disk_cache[key]
    /\ fpc' = "returned"
    /\ UNCHANGED <<IS_CN, wanted, cache_dir, disk_cache, raised, firstBytes>>
    /\ localsUnchanged

\* _try_read_cache returns None: no cache_dir, FileNotFoundError, or a read
\* that failed with another exception (logged); get builds url_list and
\* enters the retry loop
GetMiss(key) ==
    /\ fpc = "idle"
    /\ memory_cache[key] = NoEntry
    /\ cache_key' = key
    /\ wasFetched' = (firstBytes[key] # NoEntry)
    /\ url_list' = UrlList(IS_CN)
    /\ retry_count' = RetryCount
    /\ errors' = << >>
    /\ remaining_urls' = UrlList(IS_CN)
    /\ fpc' = "while"
    /\ UNCHANGED <<IS_CN, wanted, cache_dir, memory_cache, disk_cache, content, raised,
                   firstBytes, current_errors, round_urls, ui, reqCount, rounds,
                   roundReqs, notFound, diskWrite>>
    /\ UNCHANGED notFetchVars

\* while retry_count > 0 and remaining_urls: current_errors = []; for url in
\* list(remaining_urls)
RoundStart ==
    /\ fpc = "while"
    /\ retry_count > 0 /\ remaining_urls # << >>
    /\ current_errors' = << >>
    /\ round_urls' = remaining_urls
    /\ ui' = 1
    /\ rounds' = rounds + 1
    /\ roundReqs' = << >>
    /\ fpc' = "for"
    /\ UNCHANGED <<IS_CN, wanted, cache_dir, memory_cache, disk_cache, cache_key, url_list,
                   retry_count, errors, remaining_urls, content, raised,
                   reqCount, notFound, diskWrite, wasFetched, firstBytes>>
    /\ UNCHANGED notFetchVars

\* the loop condition fails: raise Exception(...) with the aggregated errors
RaiseFailure ==
    /\ fpc = "while"
    /\ ~(retry_count > 0 /\ remaining_urls # << >>)
    /\ raised' = "Exception"
    /\ fpc' = "failed"
    /\ UNCHANGED <<IS_CN, wanted, cache_dir, memory_cache, disk_cache, cache_key, content,
                   wasFetched, firstBytes>>
    /\ localsUnchanged

requested(url) ==
    /\ reqCount' = [reqCount EXCEPT ![url] = @ + 1]
    /\ roundReqs' = Append(roundReqs, url)

\* _download_url answers 200: _write_cache, return content.  The disk write
\* may fail (logged, not raised): before the file is created, or midway
DownloadOk(bytes, disk) ==
    /\ fpc = "for"
    /\ ui <= Len(round_urls)
    /\ requested(round_urls[ui])
    /\ memory_cache' = StoreMemory(memory_cache, cache_key, bytes)
    /\ IF cache_dir
          THEN /\ disk \in {"ok", "open failed", "write failed"}
               /\ diskWrite' = IF disk = "ok" THEN "ok" ELSE "failed"
               /\ disk_cache' =
                    [disk_cache EXCEPT ![cache_key] =
                        IF disk = "ok" THEN bytes
                        ELSE IF disk = "write failed" THEN Partial
                        ELSE @]
          ELSE /\ disk = "ok"
               /\ UNCHANGED <<disk_cache, diskWrite>>
    /\ content' = bytes
    /\ fpc' = "returned"
    /\ UNCHANGED <<IS_CN, wanted, cache_dir, cache_key, url_list, retry_count, errors,
                   remaining_urls, current_errors, round_urls, ui, raised,
                   rounds, notFound, wasFetched, firstBytes>>
    /\ UNCHANGED notFetchVars

\* _download_url raises NotFoundError: remaining_urls.remove(url)
DownloadNotFound ==
    /\ fpc = "for"
    /\ ui <= Len(round_urls)
    /\ requested(round_urls[ui])
    /\ remaining_urls' = Without(remaining_urls, round_urls[ui])
    /\ notFound' = notFound \cup {round_urls[ui]}
    /\ ui' = ui + 1
    /\ UNCHANGED <<IS_CN, wanted, cache_dir, memory_cache, disk_cache, fpc, cache_key,
                   url_list, retry_count, errors, current_errors, round_urls,
                   content, raised, rounds, diskWrite, wasFetched, firstBytes>>
    /\ UNCHANGED notFetchVars

\* _download_url raises ClientError, HttpError or asyncio.TimeoutError:
\* current_errors.append(...)
DownloadError ==
    /\ fpc = "for"
    /\ ui <= Len(round_urls)
    /\ requested(round_urls[ui])
    /\ current_errors' = Append(current_errors, round_urls[ui])
    /\ ui' = ui + 1
    /\ UNCHANGED <<IS_CN, wanted, cache_dir, memory_cache, disk_cache, fpc, cache_key,
                   url_list, retry_count, errors, remaining_urls, round_urls,
                   content, raised, rounds, notFound, diskWrite, wasFetched,
                   firstBytes>>
    /\ UNCHANGED notFetchVars

\* the for loop is over: if current_errors: errors.extend(current_errors);
\* retry_count -= 1; (sleep 1 if another round follows)
RoundEnd ==
    /\ fpc = "for"
    /\ ui = Len(round_urls) + 1
    /\ errors' = errors \o current_errors
    /\ retry_count' = AfterRound(retry_count, current_errors)
    /\ fpc' = "while"
    /\ UNCHANGED <<IS_CN, wanted, cache_dir, memory_cache, disk_cache, cache_key, url_list,
                   remaining_urls, current_errors, round_urls, ui, content,
                   raised, reqCount, rounds, roundReqs, notFound, diskWrite,
                   wasFetched, firstBytes>>
    /\ UNCHANGED notFetchVars

\* the caller takes the result; the Downloader is ready for the next get
GetDone ==
    /\ fpc \in {"returned", "failed"}
    /\ firstBytes' =
         IF fpc = "returned" /\ firstBytes[cache_key] = NoEntry
            THEN [firstBytes EXCEPT ![cache_key] = content]
            ELSE firstBytes
    /\ fpc' = "idle"
    /\ cache_key' = 0
    /\ url_list' = << >>
    /\ retry_count' = 0
    /\ errors' = << >>
    /\ remaining_urls' = << >>
    /\ current_errors' = << >>
    /\ round_urls' = << >>
    /\ ui' = 0
    /\ content' = NoEntry
    /\ raised' = "none"
    /\ reqCount' = NoHistory
    /\ rounds' = 0
    /\ roundReqs' = << >>
    /\ notFound' = {}
    /\ diskWrite' = "none"
    /\ wasFetched' = FALSE
    /\ UNCHANGED <<IS_CN, wanted, cache_dir, memory_cache, disk_cache>>
    /\ UNCHANGED notFetchVars

\* the request is cancelled while awaiting the response: CancelledError is not
\* among the caught exceptions and leaves get at once
DownloadCancelled ==
    /\ fpc = "for"
    /\ ui <= Len(round_urls)
    /\ requested(round_urls[ui])
    /\ raised' = "CancelledError"
    /\ fpc' = "failed"
    /\ UNCHANGED <<IS_CN, wanted, cache_dir, memory_cache, disk_cache, cache_key,
                   url_list, retry_count, errors, remaining_urls, current_errors,
                   round_urls, ui, content, rounds, notFound, diskWrite,
                   wasFetched, firstBytes>>
    /\ UNCHANGED notFetchVars

NextFetch ==
    \/ \E key \in wanted : GetMemoryHit(key)
    \/ \E key \in wanted : GetDiskHit(key)
    \/ \E key \in wanted : GetMiss(key)
    \/ RoundStart
    \/ RaiseFailure
    \/ \E bytes \in Bytes, disk \in {"ok", "open failed", "write failed"} :
          DownloadOk(bytes, disk)
    \/ DownloadNotFound
    \/ DownloadError
    \/ DownloadCancelled
    \/ RoundEnd
    \/ GetDone

----------------------------------------------------------------------------
(* ConfigMerger: depotkey_merge and its helpers *)

\* the callers of depotkey_merge: tasks of the one event loop
Tasks == {"t1", "t2"}

DepotIds == 1..NumDepots

\* a depot entry is modelled by its DecryptionKey; Absent marks a depot id
\* the map does not hold
KeyVals == {"k1", "k2"}
Absent == "-"
DepotMaps == [DepotIds -> KeyVals \cup {Absent}]
EmptyMap == [d \in DepotIds |-> Absent]

\* keys found under InstallConfigStore/Software
SoftwareKeys == {"Valve", "valve", "VALVE", "Other"}

\* str.lower()
Lower(k) ==
    CASE k = "Valve" -> "valve"
      [] k = "VALVE" -> "valve"
      [] k = "valve" -> "valve"
      [] k = "Other" -> "other"

\* a node under Software: its 'depots' submap (when it has one) and the rest
Node(k, has, m) == [key |-> k, misc |-> "misc", hasDepots |-> has, depots |-> m]

Nodes(k) ==
    {Node(k, FALSE, EmptyMap)} \cup {Node(k, TRUE, m) : m \in DepotMaps}

\* the parsed document: the Software nodes in file order, and everything else
Document(sw) == [other |-> "other", software |-> sw]
NoDoc == [other |-> Absent, software |-> << >>]

Documents ==
    {Document(<< >>), Document(<< Node("Other", FALSE, EmptyMap) >>)}
    \cup {Document(<< n >>) :
            n \in Nodes("Valve") \cup Nodes("valve") \cup Nodes("VALVE")}
    \cup {Document(<< Node("Other", FALSE, EmptyMap), n >>) :
            n \in Nodes("Valve") \cup Nodes("valve") \cup Nodes("VALVE")}
    \cup {Document(<< n, Node("valve", FALSE, EmptyMap) >>) : n \in Nodes("Valve")}

\* what a path holds: nothing, text that does not parse or was cut short, or the
\* text of a document in the layout of whoever wrote it
MissingFile == [kind |-> "missing", fmt |-> Absent, doc |-> NoDoc]
CorruptFile == [kind |-> "corrupt", fmt |-> Absent, doc |-> NoDoc]
PartialFile == [kind |-> "partial", fmt |-> Absent, doc |-> NoDoc]
SteamFile(doc) == [kind |-> "text", fmt |-> "steam", doc |-> doc]

\* vdf.dumps(config, pretty=True)
Dumps(doc) == [kind |-> "text", fmt |-> "vdf.dumps", doc |-> doc]

\* vdf.loads(content), for text that parses
Loads(file) == file.doc

FirstKey(software) == IF software = << >> THEN 0 ELSE 1

\* _get_steam_config: the index of the first key whose lower() is 'valve', 0
\* for None
VendorIndex(software) ==
    LET hits == {i \in 1..Len(software) : Lower(software[i].key) = "valve"}
    IN  IF hits = {} THEN 0
        ELSE CHOOSE i \in hits : \A j \in hits : i <= j

KeepExisting(old, new) ==
    [d \in DepotIds |-> IF old[d] # Absent THEN old[d] ELSE new[d]]

\* depots.update(depots_config.get('depots', {}))
UpdateDepots(old, new) ==
    [d \in DepotIds |-> IF new[d] # Absent THEN new[d] ELSE old[d]]

\* depots = steam.setdefault('depots', {}); depots.update(...)
MergedDocument(doc, new) ==
    LET i == VendorIndex(doc.software)
    IN  [doc EXCEPT !.software[i] =
            [@ EXCEPT !.hasDepots = TRUE,
                      !.depots = UpdateDepots(@, new)]]

KeepTemp(temp) == temp

\* if temp_path.exists(): temp_path.unlink()
RemoveTemp(temp) == MissingFile

MergeIdle ==
    /\ lock = "free"
    /\ mpc = [t \in Tasks |-> "idle"]
    /\ depots_config = [t \in Tasks |-> EmptyMap]
    /\ config = [t \in Tasks |-> NoDoc]
    /\ mresult = [t \in Tasks |-> "none"]
    /\ cause = [t \in Tasks |-> "none"]

\* maps naming one depot
SingleDepotMaps ==
    {m \in DepotMaps : Cardinality({d \in DepotIds : m[d] # Absent}) = 1}

\* documents whose Software holds the vendor node alone
VendorOnlyDocuments ==
    {Document(<< n >>) :
        n \in Nodes("Valve") \cup Nodes("valve") \cup Nodes("VALVE")}

\* config.vdf as Steam left it; a temporary file may be left over from an
\* interrupted run.  One caller is explored with every document and input, two
\* callers with the vendor-only documents and the maps naming one depot.
MergeInit ==
    /\ temp_file \in {MissingFile, PartialFile}
    /\ \/ /\ merge_tasks = {"t1"}
          /\ merge_inputs = DepotMaps
          /\ config_file \in {MissingFile, CorruptFile}
                               \cup {SteamFile(d) : d \in Documents}
       \/ /\ merge_tasks = Tasks
          /\ merge_inputs = SingleDepotMaps
          /\ config_file \in {MissingFile}
                               \cup {SteamFile(d) : d \in VendorOnlyDocuments}
    /\ MergeIdle

mergeFrame == UNCHANGED <<notMergeVars, merge_tasks, merge_inputs>>

\* a task calls depotkey_merge(config_path, depots_config) and waits for the lock
MergeCall(t, d) ==
    /\ mpc[t] = "idle"
    /\ mpc' = [mpc EXCEPT ![t] = "lock"]
    /\ depots_config' = [depots_config EXCEPT ![t] = d]
    /\ UNCHANGED <<lock, config, mresult, cause, config_file, temp_file>>
    /\ mergeFrame

NeverLocked(l) == TRUE

\* asyncio.Lock: acquire goes through when the lock is not held
Unlocked(l) == l = "free"

\* async with lock
MergeAcquire(t) ==
    /\ mpc[t] = "lock"
    /\ Unlocked(lock)
    /\ lock' = t
    /\ mpc' = [mpc EXCEPT ![t] = "exists"]
    /\ UNCHANGED <<depots_config, config, mresult, cause, config_file,
                   temp_file>>
    /\ mergeFrame

\* the call ends, with a return value or an exception; leaving the async with
\* block releases the lock
Leave(t, result, why) ==
    /\ mpc' = [mpc EXCEPT ![t] = "done"]
    /\ mresult' = [mresult EXCEPT ![t] = result]
    /\ cause' = [cause EXCEPT ![t] = why]
    /\ lock' = IF lock = t THEN "free" ELSE lock

\* if not await asyncio.to_thread(config_path.exists): return False.  The check
\* stands before the try block: an OSError of the stat call other than "no such
\* file" leaves depotkey_merge
MergeExists(t, outcome) ==
    /\ mpc[t] = "exists"
    /\ UNCHANGED <<config_file, temp_file>>
    /\ \/ /\ outcome = "found"
          /\ config_file.kind # "missing"
          /\ mpc' = [mpc EXCEPT ![t] = "read"]
          /\ UNCHANGED <<lock, mresult, cause>>
       \/ /\ outcome = "missing"
          /\ config_file.kind = "missing"
          /\ Leave(t, "False", "missing file")
       \/ /\ outcome = "error"
          /\ Leave(t, "OSError", "existence check")
    /\ UNCHANGED <<depots_config, config>>
    /\ mergeFrame

\* config = await _read_config(config_path); steam = _get_steam_config(config);
\* if steam is None: return False; setdefault; update
MergeRead(t, outcome) ==
    /\ mpc[t] = "read"
    /\ UNCHANGED <<config_file, temp_file>>
    /\ IF outcome = "oserror"
          THEN /\ Leave(t, "False", "read error")
               /\ UNCHANGED config
          ELSE IF config_file.kind # "text"
          THEN /\ Leave(t, "False", "parse error")
               /\ UNCHANGED config
          ELSE IF VendorIndex(Loads(config_file).software) = 0
          THEN /\ Leave(t, "False", "no vendor node")
               /\ UNCHANGED config
          ELSE /\ config' = [config EXCEPT ![t] =
                               MergedDocument(Loads(config_file), depots_config[t])]
               /\ mpc' = [mpc EXCEPT ![t] = "open"]
               /\ UNCHANGED <<lock, mresult, cause>>
    /\ UNCHANGED <<depots_config>>
    /\ mergeFrame

\* _write_config: aiofiles.open(temp_path, mode='w') creates or truncates the
\* temporary file; on an exception the file is removed if it exists
MergeOpenTemp(t, outcome) ==
    /\ mpc[t] = "open"
    /\ UNCHANGED config_file
    /\ IF outcome = "ok"
          THEN /\ temp_file' = PartialFile
               /\ mpc' = [mpc EXCEPT ![t] = "write"]
               /\ UNCHANGED <<lock, mresult, cause>>
          ELSE /\ temp_file' = RemoveTemp(temp_file)
               /\ Leave(t, "False", "open error")
    /\ UNCHANGED <<depots_config, config>>
    /\ mergeFrame

\* new_context = vdf.dumps(config, pretty=True); await f.write(new_context)
MergeWriteTemp(t, outcome) ==
    /\ mpc[t] = "write"
    /\ UNCHANGED config_file
    /\ IF outcome = "ok"
          THEN /\ temp_file' = Dumps(config[t])
               /\ mpc' = [mpc EXCEPT ![t] = "replace"]
               /\ UNCHANGED <<lock, mresult, cause>>
          ELSE /\ temp_file' = RemoveTemp(PartialFile)
               /\ Leave(t, "False", "write error")
    /\ UNCHANGED <<depots_config, config>>
    /\ mergeFrame

\* await asyncio.to_thread(os.replace, temp_path, config_path); return True
MergeReplace(t, outcome) ==
    /\ mpc[t] = "replace"
    /\ IF outcome = "ok"
          THEN /\ config_file' = temp_file
               /\ temp_file' = MissingFile
               /\ Leave(t, "True", "none")
          ELSE /\ temp_file' = RemoveTemp(temp_file)
               /\ UNCHANGED config_file
               /\ Leave(t, "False", "replace error")
    /\ UNCHANGED <<depots_config, config>>
    /\ mergeFrame

\* what the operation a task was awaiting may have done when the task is
\* interrupted: nothing, or its effect (the thread of to_thread runs on)
Interrupted(t, done) ==
    IF mpc[t] = "open"
       THEN /\ temp_file' = IF done THEN PartialFile ELSE temp_file
            /\ UNCHANGED config_file
    ELSE IF mpc[t] = "write"
       THEN /\ temp_file' = IF done THEN Dumps(config[t]) ELSE PartialFile
            /\ UNCHANGED config_file
    ELSE IF mpc[t] = "replace"
       THEN /\ config_file' = IF done THEN temp_file ELSE config_file
            /\ temp_file' = IF done THEN MissingFile ELSE temp_file
       ELSE /\ ~done
            /\ UNCHANGED <<config_file, temp_file>>

\* the task is cancelled at a suspension point: CancelledError is a
\* BaseException, which neither _write_config nor depotkey_merge catches
MergeCancelled(t, done) ==
    /\ mpc[t] \in {"lock", "exists", "read", "open", "write", "replace"}
    /\ Interrupted(t, done)
    /\ Leave(t, "CancelledError", "cancelled")
    /\ UNCHANGED <<depots_config, config>>
    /\ mergeFrame

\* KeyboardInterrupt raised in the task: inside the try block depotkey_merge
\* returns False (_write_config's except Exception does not see it); before the
\* try block it leaves depotkey_merge
MergeKeyboardInterrupt(t, done) ==
    /\ mpc[t] \in {"exists", "read", "open", "write", "replace"}
    /\ Interrupted(t, done)
    /\ IF mpc[t] = "exists"
          THEN Leave(t, "KeyboardInterrupt", "interrupt")
          ELSE Leave(t, "False", "interrupt")
    /\ UNCHANGED <<depots_config, config>>
    /\ mergeFrame

NextMerge ==
    \/ \E t \in merge_tasks, d \in merge_inputs : MergeCall(t, d)
    \/ \E t \in merge_tasks : MergeAcquire(t)
    \/ \E t \in merge_tasks, outcome \in {"found", "missing", "error"} :
          MergeExists(t, outcome)
    \/ \E t \in merge_tasks, outcome \in {"ok", "oserror"} : MergeRead(t, outcome)
    \/ \E t \in merge_tasks, outcome \in {"ok", "oserror"} : MergeOpenTemp(t, outcome)
    \/ \E t \in merge_tasks, outcome \in {"ok", "oserror"} : MergeWriteTemp(t, outcome)
    \/ \E t \in merge_tasks, outcome \in {"ok", "oserror"} : MergeReplace(t, outcome)
    \/ \E t \in merge_tasks, done \in BOOLEAN : MergeCancelled(t, done)
    \/ \E t \in merge_tasks, done \in BOOLEAN : MergeKeyboardInterrupt(t, done)

----------------------------------------------------------------------------
(* SlotAllocator: greenluma_add *)

\* the depot and app ids handed to greenluma_add
AppIds == 1..NumValues

\* the highest index a call can reach: one past the files present, per value
MaxIndex == NumSlots + MaxRequest - 1
Indices == 0..MaxIndex

\* <index>.txt does not exist
NoFile == -1
\* <index>.txt exists and holds no text
Blank == -2

EmptyDir == [i \in Indices |-> NoFile]

\* the AppList directories holding values in the files 0.txt .. NumSlots-1.txt
SlotDirs ==
    {d \in [Indices -> AppIds \cup {NoFile}] :
        \A i \in Indices : i >= NumSlots => d[i] = NoFile}

\* the lists a caller passes: handle_green_luma passes no empty list
RequestLists == UNION {[1..n -> AppIds] : n \in 1..MaxRequest}

\* depot_dict.keys() / depot_dict.values()
DictKeys(dict) == {i \in Indices : dict[i] # NoFile}
DictValues(dict) == {dict[i] : i \in DictKeys(dict)}

\* max(depot_dict.keys(), default=-1)
MaxKey(dict) ==
    IF DictKeys(dict) = {} THEN -1
    ELSE CHOOSE i \in DictKeys(dict) : \A j \in DictKeys(dict) : j <= i

\* index = max(...) + 1; while index in depot_dict: index += 1
FreeIndex(dict) ==
    LET start == MaxKey(dict) + 1
    IN  CHOOSE i \in start..(MaxIndex + 1) :
           /\ i \notin DictKeys(dict)
           /\ \A j \in start..(i - 1) : j \in DictKeys(dict)

AllocIdle ==
    /\ unlock_lock = "free"
    /\ apc = [t \in Tasks |-> "idle"]
    /\ depot_id_list = [t \in Tasks |-> << >>]
    /\ depot_dict = [t \in Tasks |-> EmptyDir]
    /\ ai = [t \in Tasks |-> 0]
    /\ aresult = [t \in Tasks |-> "none"]
    /\ acause = [t \in Tasks |-> "none"]
    /\ overlapped = FALSE

\* the AppList directory as GreenLuma or an earlier run left it.  aios.scandir
\* is os.scandir wrapped into a coroutine function: whether async for can walk
\* its result is left to the installed aiofiles
AllocInit ==
    /\ app_list \in SlotDirs
    /\ initial_list = app_list
    /\ scandir_iterable \in BOOLEAN
    /\ alloc_tasks \in {{"t1"}, Tasks}
    /\ AllocIdle

allocFrame ==
    UNCHANGED <<notAllocVars, initial_list, scandir_iterable, alloc_tasks,
                unlock_lock>>

\* a task calls greenluma_add(depot_id_list); the function takes no lock
AllocCall(t, ids) ==
    /\ apc[t] = "idle"
    /\ apc' = [apc EXCEPT ![t] = "makedirs"]
    /\ depot_id_list' = [depot_id_list EXCEPT ![t] = ids]
    /\ overlapped' = (overlapped \/
                        \E u \in Tasks \ {t} : apc[u] \notin {"idle", "done"})
    /\ UNCHANGED <<app_list, depot_dict, ai, aresult, acause>>
    /\ allocFrame

\* return True / return False
AllocLeave(t, result, why) ==
    /\ apc' = [apc EXCEPT ![t] = "done"]
    /\ aresult' = [aresult EXCEPT ![t] = result]
    /\ acause' = [acause EXCEPT ![t] = why]

\* await aios.makedirs(app_list_path, exist_ok=True)
AllocMakedirs(t, outcome) ==
    /\ apc[t] = "makedirs"
    /\ IF outcome = "ok"
          THEN /\ apc' = [apc EXCEPT ![t] = "clear"]
               /\ UNCHANGED <<aresult, acause>>
          ELSE AllocLeave(t, "False", "oserror")
    /\ UNCHANGED <<app_list, depot_id_list, depot_dict, ai, overlapped>>
    /\ allocFrame

\* async for file in aios.scandir(app_list_path): remove every .txt file.  When
\* the coroutine cannot be iterated the TypeError ends in except Exception
AllocClear(t, outcome) ==
    /\ apc[t] = "clear"
    /\ IF ~scandir_iterable
          THEN /\ outcome = "ok"
               /\ AllocLeave(t, "False", "TypeError")
               /\ UNCHANGED app_list
          ELSE IF outcome = "ok"
          THEN /\ app_list' = EmptyDir
               /\ apc' = [apc EXCEPT ![t] = "scan"]
               /\ UNCHANGED <<aresult, acause>>
          ELSE /\ AllocLeave(t, "False", "oserror")
               /\ UNCHANGED app_list
    /\ UNCHANGED <<depot_id_list, depot_dict, ai, overlapped>>
    /\ allocFrame

\* depot_dict[int(stem)] = int(depot_id) for every <decimal>.txt; int('') of a
\* file without text is a ValueError
AllocScan(t) ==
    /\ apc[t] = "scan"
    /\ IF \E i \in Indices : app_list[i] = Blank
          THEN /\ AllocLeave(t, "False", "ValueError")
               /\ UNCHANGED <<depot_dict, ai>>
          ELSE /\ depot_dict' = [depot_dict EXCEPT ![t] = app_list]
               /\ ai' = [ai EXCEPT ![t] = 1]
               /\ apc' = [apc EXCEPT ![t] = "alloc"]
               /\ UNCHANGED <<aresult, acause>>
    /\ UNCHANGED <<app_list, depot_id_list, overlapped>>
    /\ allocFrame

\* one turn of for depot_id in map(int, depot_id_list), or return True
AllocNext(t, outcome) ==
    /\ apc[t] = "alloc"
    /\ IF ai[t] > Len(depot_id_list[t])
          THEN /\ outcome = "ok"
               /\ AllocLeave(t, "True", "none")
               /\ UNCHANGED <<app_list, depot_dict, ai>>
          ELSE LET depot_id == depot_id_list[t][ai[t]]
                   index == FreeIndex(depot_dict[t])
               IN  IF depot_id \in DictValues(depot_dict[t])
                      THEN /\ outcome = "ok"
                           /\ ai' = [ai EXCEPT ![t] = @ + 1]
                           /\ UNCHANGED <<app_list, depot_dict, apc, aresult,
                                          acause>>
                      ELSE /\ index <= MaxIndex
                           /\ IF outcome = "ok"
                                 THEN /\ app_list' =
                                         [app_list EXCEPT ![index] = depot_id]
                                      /\ depot_dict' =
                                         [depot_dict EXCEPT ![t][index] = depot_id]
                                      /\ ai' = [ai EXCEPT ![t] = @ + 1]
                                      /\ UNCHANGED <<apc, aresult, acause>>
                                 ELSE /\ app_list' =
                                         [app_list EXCEPT ![index] = Blank]
                                      /\ AllocLeave(t, "False", "oserror")
                                      /\ UNCHANGED <<depot_dict, ai>>
    /\ UNCHANGED <<depot_id_list, overlapped>>
    /\ allocFrame

\* except asyncio.CancelledError: return False
AllocCancelled(t) ==
    /\ apc[t] \in {"makedirs", "clear", "scan", "alloc"}
    /\ AllocLeave(t, "False", "cancelled")
    /\ UNCHANGED <<app_list, depot_id_list, depot_dict, ai, overlapped>>
    /\ allocFrame

NextAlloc ==
    \/ \E t \in alloc_tasks, ids \in RequestLists : AllocCall(t, ids)
    \/ \E t \in alloc_tasks, outcome \in {"ok", "oserror"} : AllocMakedirs(t, outcome)
    \/ \E t \in alloc_tasks, outcome \in {"ok", "oserror"} : AllocClear(t, outcome)
    \/ \E t \in alloc_tasks : AllocScan(t)
    \/ \E t \in alloc_tasks, outcome \in {"ok", "oserror"} : AllocNext(t, outcome)
    \/ \E t \in alloc_tasks : AllocCancelled(t)

----------------------------------------------------------------------------
(* RateLimiter: RateLimitCache and check_github_api_rate_limit *)

\* the readings of time.monotonic()
Times == 0..MaxTime

\* what one quota-check request can end in: an HTTP status with a body that
\* resp.json accepts ("json"), that is declared as JSON and does not decode
\* ("badjson"), or that is not declared as JSON ("notjson", aiohttp raises
\* ContentTypeError, a ClientError); or no response at all
Statuses == {200, 401, 403, 429, 500}
TransportError == [status |-> 0, body |-> "none"]
NoOutcome == [status |-> -1, body |-> "none"]
Outcomes ==
    {[status |-> st, body |-> b] : st \in Statuses, b \in {"json", "badjson", "notjson"}}
    \cup {TransportError}

\* the waits a 429 can ask for: max(reset_ts - int(time.time()), 1)
RetryAfters == {1, 3}

AlwaysExpired == TRUE

\* RateLimitCache.is_expired
IsExpired == now - last_update > CACHE_EXPIRE_TIME

\* RateLimitCache.get
CacheGet == IF ~IsExpired THEN q_cache ELSE "None"

LinearBackoff(a) == a + 1

\* wait = 2 ** (attempt + 1)
Backoff(a) == 2 ^ (a + 1)

QuotaIdle ==
    /\ qpc = "idle"
    /\ attempt = 0
    /\ qwait = 0
    /\ qreqs = 0
    /\ qwaits = << >>
    /\ qresult = "none"
    /\ used_cache = FALSE
    /\ last_outcome = NoOutcome
    /\ all_refused = TRUE

\* rate_limit_cache = RateLimitCache(), at any reading of the clock
QuotaInit ==
    /\ now \in Times
    /\ q_cache = "None"
    /\ last_update = 0
    /\ QuotaIdle

\* time passes
Tick ==
    /\ now < MaxTime
    /\ now' = now + 1
    /\ UNCHANGED <<q_cache, last_update, qpc, attempt, qwait, qreqs, qwaits,
                   qresult, used_cache, last_outcome, all_refused>>
    /\ UNCHANGED notQuotaVars

\* check_github_api_rate_limit up to the first request: a cached snapshot
\* that has not expired ends the call
QuotaCall ==
    /\ qpc = "idle"
    /\ IF CacheGet # "None"
          THEN /\ qpc' = "done"
               /\ qresult' = "returned"
               /\ used_cache' = TRUE
          ELSE /\ qpc' = "request"
               /\ UNCHANGED <<qresult, used_cache>>
    /\ UNCHANGED <<now, q_cache, last_update, attempt, qwait, qreqs, qwaits,
                   last_outcome, all_refused>>
    /\ UNCHANGED notQuotaVars

\* the call ends with an exception
QuotaRaise(e) ==
    /\ qpc' = "done"
    /\ qresult' = e
    /\ UNCHANGED <<q_cache, last_update, attempt, qwait, qwaits>>

\* asyncio.sleep(w) is awaited
QuotaWait(w) ==
    /\ qpc' = "sleep"
    /\ qwait' = w
    /\ qwaits' = Append(qwaits, w)
    /\ UNCHANGED <<q_cache, last_update, attempt, qresult>>

\* the for loop takes its next turn, or ends and the call returns None
QuotaContinue ==
    /\ attempt' = attempt + 1
    /\ qwait' = 0
    /\ IF attempt + 1 < MaxRetries
          THEN qpc' = "request" /\ UNCHANGED qresult
          ELSE qpc' = "done" /\ qresult' = "returned"
    /\ UNCHANGED <<q_cache, last_update, qwaits>>

\* _handle_retryable_error
HandleRetryableError ==
    IF attempt < MaxRetries - 1
       THEN QuotaWait(Backoff(attempt))
       ELSE QuotaRaise("ConnectionError")

\* _handle_non_200_response, after the body was read
HandleNon200(st) ==
    IF st \in {401, 403} THEN QuotaRaise("PermissionError")
    ELSE IF st = 429 THEN \E w \in RetryAfters : QuotaWait(w)
    ELSE IF attempt < MaxRetries - 1 THEN QuotaWait(Backoff(attempt))
    ELSE QuotaContinue

\* a response with a status that is neither 200 nor 401 nor 403
Refusal(o) == o # TransportError /\ o.status \notin {200, 401, 403}

\* one turn of the loop: session.get and the handling of what came back, up
\* to the sleep, the return or the exception
QuotaRequest(o) ==
    /\ qpc = "request"
    /\ qreqs' = qreqs + 1
    /\ last_outcome' = o
    /\ all_refused' = (all_refused /\ Refusal(o))
    /\ IF o = TransportError \/ o.body = "notjson"
          THEN HandleRetryableError
          ELSE IF o.status = 200
          THEN /\ q_cache' = "snapshot"
               /\ last_update' = now
               /\ qpc' = "done"
               /\ qresult' = "returned"
               /\ UNCHANGED <<attempt, qwait, qwaits>>
          ELSE HandleNon200(o.status)
    /\ UNCHANGED <<now, used_cache>>
    /\ UNCHANGED notQuotaVars

\* the sleep is over
QuotaSleep ==
    /\ qpc = "sleep"
    /\ now + qwait <= MaxTime
    /\ now' = now + qwait
    /\ QuotaContinue
    /\ UNCHANGED <<qreqs, used_cache, last_outcome, all_refused>>
    /\ UNCHANGED notQuotaVars

\* the task is cancelled while it awaits the response or the sleep
QuotaCancelled ==
    /\ qpc \in {"request", "sleep"}
    /\ QuotaRaise("CancelledError")
    /\ UNCHANGED <<now, qreqs, used_cache, last_outcome, all_refused>>
    /\ UNCHANGED notQuotaVars

\* the caller goes on; the next call starts afresh
QuotaReturn ==
    /\ qpc = "done"
    /\ qpc' = "idle"
    /\ attempt' = 0
    /\ qwait' = 0
    /\ qreqs' = 0
    /\ qwaits' = << >>
    /\ qresult' = "none"
    /\ used_cache' = FALSE
    /\ last_outcome' = NoOutcome
    /\ all_refused' = TRUE
    /\ UNCHANGED <<now, q_cache, last_update>>
    /\ UNCHANGED notQuotaVars

NextQuota ==
    \/ Tick
    \/ QuotaCall
    \/ \E o \in Outcomes : QuotaRequest(o)
    \/ QuotaSleep
    \/ QuotaCancelled
    \/ QuotaReturn

----------------------------------------------------------------------------
(* ArtifactExtractor: get_manifest *)

\* the paths of one tree: 'Key.vdf', <n>.manifest, and a path that is neither
KeyVdfPath == 0
ManifestPaths == 1..NumManifests
OtherPath == NumManifests + 1
Paths == {KeyVdfPath, OtherPath} \cup ManifestPaths

\* path.endswith('.manifest')
IsManifest(p) == p \in ManifestPaths

\* an entry of the 'depots' section: a section with a 'DecryptionKey', a
\* section without one, or a plain string in place of a section
EntryKinds == {"key", "nokey", "scalar"}

\* the 'depots' section: entries in file order, each depot id once
DepotEntries ==
    UNION {{e \in [1..n -> [id : DepotIds, kind : EntryKinds]] :
               \A i, j \in 1..n : e[i].id = e[j].id => i = j} :
           n \in 0..NumDepots}

\* what the bytes of Key.vdf can be: not UTF-8, not VDF, VDF without 'depots',
\* or VDF with a 'depots' section
KeyContents ==
    {[form |-> f, entries |-> <<>>] :
        f \in {"undecodable", "unparsable", "nodepots"}}
    \cup {[form |-> "depots", entries |-> e] : e \in DepotEntries}

NoDepotNamed == 0

\* for depot_id, depot_info in depots.items(): depot_info['DecryptionKey']
\* is a KeyError on a section without the key, which is logged with the
\* depot id and raised again, and a TypeError on a string
RECURSIVE CollectDepots(_, _, _)
CollectDepots(entries, i, acc) ==
    IF i > Len(entries)
       THEN [result |-> IF acc = <<>> THEN "[]" ELSE "records",
             depots |-> acc, logged |-> NoDepotNamed]
       ELSE CASE entries[i].kind = "key" ->
                    CollectDepots(entries, i + 1, Append(acc, entries[i].id))
              [] entries[i].kind = "nokey" ->
                    [result |-> "KeyError", depots |-> <<>>,
                     logged |-> entries[i].id]
              [] entries[i].kind = "scalar" ->
                    [result |-> "TypeError", depots |-> <<>>,
                     logged |-> NoDepotNamed]

\* what get_manifest makes of the bytes of Key.vdf: the list it returns, or
\* the exception it raises and the depot its error log names
ParseKeyVdf(c) ==
    IF c.form = "depots"
       THEN CollectDepots(c.entries, 1, <<>>)
       ELSE [result |-> "ValueError", depots |-> <<>>, logged |-> NoDepotNamed]

NeverExists(file) == FALSE

\* save_path.exists()
Exists(file) == file # NoEntry

ExtractIdle ==
    /\ epc = [p \in Paths |-> "idle"]
    /\ econtent = [p \in Paths |-> NoEntry]
    /\ eresult = [p \in Paths |-> "none"]
    /\ efetches = [p \in Paths |-> 0]
    /\ collected_depots = <<>>
    /\ named_depot = NoDepotNamed

\* steam_path/depotcache as earlier runs left it: a manifest is absent, cut
\* short, or complete
ExtractInit ==
    /\ depotcache \in [ManifestPaths -> {NoEntry, Partial} \cup Bytes]
    /\ key_source \in KeyContents
    /\ ExtractIdle

\* return collected_depots / raise
ExtractLeave(p, result) ==
    /\ epc' = [epc EXCEPT ![p] = "done"]
    /\ eresult' = [eresult EXCEPT ![p] = result]

\* get_manifest up to its first await.  mkdir(exist_ok=True) can fail only
\* where no depotcache directory with a file in it exists
ExtractCall(p, outcome) ==
    /\ epc[p] = "idle"
    /\ IF IsManifest(p)
          THEN IF outcome = "oserror"
                  THEN /\ \A q \in ManifestPaths : depotcache[q] = NoEntry
                       /\ ExtractLeave(p, "OSError")
                  ELSE IF Exists(depotcache[p])
                  THEN ExtractLeave(p, "[]")
                  ELSE /\ epc' = [epc EXCEPT ![p] = "get"]
                       /\ UNCHANGED eresult
          ELSE /\ outcome = "ok"
               /\ IF p = KeyVdfPath
                     THEN /\ epc' = [epc EXCEPT ![p] = "get"]
                          /\ UNCHANGED eresult
                     ELSE ExtractLeave(p, "[]")
    /\ UNCHANGED <<depotcache, econtent, efetches, keyVars>>
    /\ UNCHANGED notExtractVars

\* content = await get(sha, path, repo, session) raises
ExtractGetFails(p) ==
    /\ epc[p] = "get"
    /\ efetches' = [efetches EXCEPT ![p] = @ + 1]
    /\ ExtractLeave(p, "Exception")
    /\ UNCHANGED <<depotcache, econtent, keyVars>>
    /\ UNCHANGED notExtractVars

\* content = await get(...) returns the bytes of a manifest
ExtractGetManifest(p, b) ==
    /\ epc[p] = "get"
    /\ IsManifest(p)
    /\ efetches' = [efetches EXCEPT ![p] = @ + 1]
    /\ econtent' = [econtent EXCEPT ![p] = b]
    /\ epc' = [epc EXCEPT ![p] = "write"]
    /\ UNCHANGED <<depotcache, eresult, keyVars>>
    /\ UNCHANGED notExtractVars

\* content = await get(...) returns the bytes of Key.vdf, which are decoded
\* and parsed without a further await
ExtractGetKeyVdf ==
    /\ epc[KeyVdfPath] = "get"
    /\ efetches' = [efetches EXCEPT ![KeyVdfPath] = @ + 1]
    /\ ExtractLeave(KeyVdfPath, ParseKeyVdf(key_source).result)
    /\ collected_depots' = ParseKeyVdf(key_source).depots
    /\ named_depot' = ParseKeyVdf(key_source).logged
    /\ UNCHANGED <<depotcache, econtent, key_source>>
    /\ UNCHANGED notExtractVars

\* async with aiofiles.open(save_path, 'wb') as f: await f.write(content)
ExtractWrite(p, outcome) ==
    /\ epc[p] = "write"
    /\ IF outcome = "ok"
          THEN /\ depotcache' = [depotcache EXCEPT ![p] = econtent[p]]
               /\ ExtractLeave(p, "[]")
          ELSE /\ \E left \in {depotcache[p], Partial} :
                     depotcache' = [depotcache EXCEPT ![p] = left]
               /\ ExtractLeave(p, outcome)
    /\ UNCHANGED <<econtent, efetches, keyVars>>
    /\ UNCHANGED notExtractVars

\* the task is cancelled while it awaits the download
ExtractCancelled(p) ==
    /\ epc[p] = "get"
    /\ ExtractLeave(p, "CancelledError")
    /\ UNCHANGED <<depotcache, econtent, efetches, keyVars>>
    /\ UNCHANGED notExtractVars

\* the tree is processed again later: get_manifest is called anew for the path
ExtractReturn(p) ==
    /\ epc[p] = "done"
    /\ epc' = [epc EXCEPT ![p] = "idle"]
    /\ econtent' = [econtent EXCEPT ![p] = NoEntry]
    /\ eresult' = [eresult EXCEPT ![p] = "none"]
    /\ efetches' = [efetches EXCEPT ![p] = 0]
    /\ IF p = KeyVdfPath
          THEN /\ collected_depots' = <<>>
               /\ named_depot' = NoDepotNamed
               /\ UNCHANGED key_source
          ELSE UNCHANGED keyVars
    /\ UNCHANGED depotcache
    /\ UNCHANGED notExtractVars

NextExtract ==
    \/ \E p \in Paths, outcome \in {"ok", "oserror"} : ExtractCall(p, outcome)
    \/ \E p \in Paths : ExtractGetFails(p)
    \/ \E p \in Paths, b \in Bytes : ExtractGetManifest(p, b)
    \/ ExtractGetKeyVdf
    \/ \E p \in Paths, outcome \in {"ok", "OSError", "CancelledError"} :
          ExtractWrite(p, outcome)
    \/ \E p \in Paths : ExtractCancelled(p)
    \/ \E p \in Paths : ExtractReturn(p)

\* the call for Key.vdf on its own
NextKeyVdf ==
    \/ ExtractCall(KeyVdfPath, "ok")
    \/ ExtractGetFails(KeyVdfPath)
    \/ ExtractGetKeyVdf
    \/ ExtractCancelled(KeyVdfPath)
    \/ ExtractReturn(KeyVdfPath)

----------------------------------------------------------------------------
(* Downloader.get called by the gathered get_manifest tasks *)

\* everything of the Downloader but its two cache tiers
fetchLocals ==
    <<IS_CN, wanted, cache_dir, fpc, cache_key, url_list, retry_count, errors,
      remaining_urls, current_errors, round_urls, ui, content, raised,
      reqCount, rounds, roundReqs, notFound, diskWrite, wasFetched,
      firstBytes>>

notShareVars ==
    <<resolveVars, fetchLocals, mergeVars, allocVars, quotaVars, extractVars,
      loopVars>>

ShareIdle ==
    /\ share_tasks = {}
    /\ gpc = [t \in Tasks |-> "idle"]
    /\ gkey = [t \in Tasks |-> 0]
    /\ gcontent = [t \in Tasks |-> NoEntry]
    /\ cache_writes = [k \in Keys |-> 0]

\* one Downloader, its memory cache empty, shared by the tasks that
\* process_repository_items gathers
ShareInit ==
    /\ share_tasks = Tasks
    /\ gpc = [t \in Tasks |-> "idle"]
    /\ gkey = [t \in Tasks |-> 0]
    /\ gcontent = [t \in Tasks |-> NoEntry]
    /\ cache_writes = [k \in Keys |-> 0]
    /\ IS_CN = FALSE
    /\ wanted = Keys
    /\ cache_dir \in BOOLEAN
    /\ memory_cache = [k \in Keys |-> NoEntry]
    /\ disk_cache \in [Keys -> {NoEntry, Partial} \cup Bytes]
    /\ (~cache_dir => disk_cache = [k \in Keys |-> NoEntry])
    /\ firstBytes = [k \in Keys |-> NoEntry]
    /\ FetchIdle

\* self.memory_cache[cache_key] = content, by whichever task
ShareStore(t, bytes) ==
    /\ memory_cache' = StoreMemory(memory_cache, gkey[t], bytes)
    /\ cache_writes' = [cache_writes EXCEPT ![gkey[t]] = @ + 1]
    /\ gcontent' = [gcontent EXCEPT ![t] = bytes]

\* get(...) up to its first await: the key is in the memory cache, or the
\* disk cache is to be read, or there is no disk cache
ShareGet(t, key) ==
    /\ gpc[t] = "idle"
    /\ gkey' = [gkey EXCEPT ![t] = key]
    /\ IF memory_cache[key] # NoEntry
          THEN /\ gcontent' = [gcontent EXCEPT ![t] = memory_cache[key]]
               /\ gpc' = [gpc EXCEPT ![t] = "returned"]
          ELSE /\ gpc' = [gpc EXCEPT ![t] =
                             IF cache_dir THEN "read" ELSE "download"]
               /\ UNCHANGED gcontent
    /\ UNCHANGED <<memory_cache, disk_cache, cache_writes, share_tasks>>
    /\ UNCHANGED notShareVars

\* _try_read_cache reads the disk entry: found, it is stored in the memory
\* cache and returned; FileNotFoundError or another error gives None
ShareReadDisk(t, outcome) ==
    /\ gpc[t] = "read"
    /\ IF outcome = "ok" /\ disk_cache[gkey[t]] # NoEntry
          THEN /\ ShareStore(t, disk_cache[gkey[t]])
               /\ gpc' = [gpc EXCEPT ![t] = "returned"]
          ELSE /\ gpc' = [gpc EXCEPT ![t] = "download"]
               /\ UNCHANGED <<memory_cache, cache_writes, gcontent>>
    /\ UNCHANGED <<disk_cache, gkey, share_tasks>>
    /\ UNCHANGED notShareVars

\* the retry loop ends with a 200: _write_cache stores the bytes in the
\* memory cache, then awaits the disk write when there is a cache directory
ShareDownloadOk(t, bytes) ==
    /\ gpc[t] = "download"
    /\ ShareStore(t, bytes)
    /\ gpc' = [gpc EXCEPT ![t] = IF cache_dir THEN "diskwrite" ELSE "returned"]
    /\ UNCHANGED <<disk_cache, gkey, share_tasks>>
    /\ UNCHANGED notShareVars

\* the retry loop ends without a 200: raise Exception
ShareDownloadFails(t) ==
    /\ gpc[t] = "download"
    /\ gpc' = [gpc EXCEPT ![t] = "failed"]
    /\ UNCHANGED <<memory_cache, disk_cache, cache_writes, gkey, gcontent,
                   share_tasks>>
    /\ UNCHANGED notShareVars

\* async with aiofiles.open(cache_path, 'wb') as f: await f.write(content); a
\* failure is logged and get returns the content all the same
ShareWriteDisk(t, disk) ==
    /\ gpc[t] = "diskwrite"
    /\ disk_cache' =
         [disk_cache EXCEPT ![gkey[t]] =
             IF disk = "ok" THEN gcontent[t]
             ELSE IF disk = "write failed" THEN Partial
             ELSE @]
    /\ gpc' = [gpc EXCEPT ![t] = "returned"]
    /\ UNCHANGED <<memory_cache, cache_writes, gkey, gcontent, share_tasks>>
    /\ UNCHANGED notShareVars

\* the task is cancelled at an await of get
ShareCancelled(t) ==
    /\ gpc[t] \in {"read", "download", "diskwrite"}
    /\ gpc' = [gpc EXCEPT ![t] = "failed"]
    /\ UNCHANGED <<memory_cache, disk_cache, cache_writes, gkey, gcontent,
                   share_tasks>>
    /\ UNCHANGED notShareVars

\* the task is over; a later task calls get on the same Downloader
ShareDone(t) ==
    /\ gpc[t] \in {"returned", "failed"}
    /\ gpc' = [gpc EXCEPT ![t] = "idle"]
    /\ gkey' = [gkey EXCEPT ![t] = 0]
    /\ gcontent' = [gcontent EXCEPT ![t] = NoEntry]
    /\ UNCHANGED <<memory_cache, disk_cache, cache_writes, share_tasks>>
    /\ UNCHANGED notShareVars

NextShare ==
    \/ \E t \in share_tasks, key \in Keys : ShareGet(t, key)
    \/ \E t \in share_tasks, outcome \in {"ok", "error"} : ShareReadDisk(t, outcome)
    \/ \E t \in share_tasks, bytes \in Bytes : ShareDownloadOk(t, bytes)
    \/ \E t \in share_tasks : ShareDownloadFails(t)
    \/ \E t \in share_tasks, disk \in {"ok", "open failed", "write failed"} :
          ShareWriteDisk(t, disk)
    \/ \E t \in share_tasks : ShareCancelled(t)
    \/ \E t \in share_tasks : ShareDone(t)

----------------------------------------------------------------------------
(* main_loop and the pipeline main *)

\* what a stage of main can raise that is an Exception
Exceptions ==
    {"TypeError", "PermissionError", "ConnectionError", "Exception"}

\* what ends a task and is no Exception
Interrupts == {"CancelledError", "KeyboardInterrupt"}

\* the positions of main between its awaits
Stages ==
    {"checkcn", "quota", "resolve", "branch", "tree", "items", "steamtools",
     "greenluma", "pause"}

\* handle_steam_tools and handle_green_luma
Sinks == {"steamtools", "greenluma"}

\* what one get_manifest task comes to: a list with records, an empty list
\* (every .manifest entry, or a Key.vdf without depots), or an exception
EntryOutcomes == {"records", "none", "fails"}

\* the tasks of a tree; main has returned before on an empty tree
TreeOutcomes == UNION {[1..n -> EntryOutcomes] : n \in 1..(NumManifests + 1)}

GatherKeepsRecords(outcomes) ==
    IF \E i \in DOMAIN outcomes : outcomes[i] = "records" THEN "records"
    ELSE IF \E i \in DOMAIN outcomes : outcomes[i] = "fails" THEN "Exception"
    ELSE "empty"

\* results = await asyncio.gather(*tasks), flattened: the exception of a task
\* is raised out of gather; otherwise the records of all the lists
GatherOutcome(outcomes) ==
    IF \E i \in DOMAIN outcomes : outcomes[i] = "fails" THEN "Exception"
    ELSE IF \E i \in DOMAIN outcomes : outcomes[i] = "records" THEN "records"
    ELSE "empty"

CatchesNothing(e) == FALSE

\* except Exception as e, in main_loop
Catches(e) == e \in Exceptions

LoopIdle ==
    /\ lpc = "idle"
    /\ prompts = 0
    /\ run_outcome = "none"
    /\ exit_cause = "none"
    /\ is_steam_tools = FALSE
    /\ is_green_luma = FALSE
    /\ passed = {}
    /\ tree_results = <<>>
    /\ sinks = {}

\* main_loop is entered; which unlock tools are installed was found at import
LoopInit ==
    /\ lpc = "prompt"
    /\ prompts = 0
    /\ run_outcome = "none"
    /\ exit_cause = "none"
    /\ is_steam_tools \in BOOLEAN
    /\ is_green_luma \in BOOLEAN
    /\ passed = {}
    /\ tree_results = <<>>
    /\ sinks = {}

loopFrame ==
    UNCHANGED <<notLoopVars, is_steam_tools, is_green_luma, tree_results>>

\* app_id = prompt_app_id(): input() gives an id of digits (anything else is
\* asked again), or raises EOFError or KeyboardInterrupt, which break the loop
Prompt(input) ==
    /\ lpc = "prompt"
    /\ prompts < MaxPrompts
    /\ prompts' = prompts + 1
    /\ IF input = "id"
          THEN /\ lpc' = "checkcn"
               /\ run_outcome' = "none"
               /\ passed' = {}
               /\ tree_results' = <<>>
               /\ sinks' = {}
               /\ UNCHANGED exit_cause
          ELSE /\ lpc' = "exited"
               /\ exit_cause' = input
               /\ UNCHANGED <<run_outcome, passed, tree_results, sinks>>
    /\ UNCHANGED <<notLoopVars, is_steam_tools, is_green_luma>>

\* main goes on to its next await
Advance(stage) ==
    /\ lpc' = stage
    /\ passed' = passed \cup {lpc}
    /\ sinks' = IF stage \in Sinks THEN sinks \cup {stage} ELSE sinks
    /\ UNCHANGED <<prompts, run_outcome, exit_cause>>

\* main returns True or False: the while loop of main_loop comes round
Returns(value) ==
    /\ lpc' = "prompt"
    /\ run_outcome' = value
    /\ UNCHANGED <<prompts, exit_cause, passed, sinks>>

\* main raises: except Exception logs it and sleeps a second; anything else
\* leaves main_loop
Raises(e) ==
    /\ run_outcome' = e
    /\ IF Catches(e)
          THEN /\ lpc' = "sleep"
               /\ UNCHANGED exit_cause
          ELSE /\ lpc' = "exited"
               /\ exit_cause' = e
    /\ UNCHANGED <<prompts, passed, sinks>>

\* the stage after the records were collected: the sinks that are installed,
\* then the pause
AfterItems(from) ==
    IF from = "items" /\ is_steam_tools THEN "steamtools"
    ELSE IF from \in {"items", "steamtools"} /\ is_green_luma THEN "greenluma"
    ELSE "pause"

\* await checkcn(session): it returns, or the except clause that names
\* aiohttp.ClientTimeout, which is no exception class, raises TypeError
StageCheckCn(outcome) ==
    /\ lpc = "checkcn"
    /\ IF outcome = "ok" THEN Advance("quota") ELSE Raises("TypeError")
    /\ loopFrame

\* await check_github_api_rate_limit(headers, session)
StageQuota(outcome) ==
    /\ lpc = "quota"
    /\ IF outcome = "ok" THEN Advance("resolve") ELSE Raises(outcome)
    /\ loopFrame

\* selected_repo, latest_date = await get_latest_repo_info(...)
StageResolve(outcome) ==
    /\ lpc = "resolve"
    /\ IF outcome = "ok" THEN Advance("branch") ELSE Returns("False")
    /\ loopFrame

\* branch_info = await fetch_branch_info(...)
StageBranch(outcome) ==
    /\ lpc = "branch"
    /\ IF outcome = "ok" THEN Advance("tree") ELSE Returns("False")
    /\ loopFrame

\* tree_info = await fetch_branch_info(session, tree_url, headers)
StageTree(outcome) ==
    /\ lpc = "tree"
    /\ IF outcome = "ok" THEN Advance("items") ELSE Returns("False")
    /\ loopFrame

\* collected_depots = await process_repository_items(...): records, none, or
\* the exception of a get_manifest task
StageItems(outcomes) ==
    /\ lpc = "items"
    /\ tree_results' = outcomes
    /\ CASE GatherOutcome(outcomes) = "records" -> Advance(AfterItems("items"))
         [] GatherOutcome(outcomes) = "empty" -> Returns("False")
         [] GatherOutcome(outcomes) = "Exception" -> Raises("Exception")
    /\ UNCHANGED <<notLoopVars, is_steam_tools, is_green_luma>>

\* await handle_steam_tools(...) / await handle_green_luma(...): the results
\* of the sinks are not looked at; an exception they let through ends main
StageSink(outcome) ==
    /\ lpc \in {"steamtools", "greenluma"}
    /\ IF outcome = "ok" THEN Advance(AfterItems(lpc)) ELSE Raises("Exception")
    /\ loopFrame

\* os.system('pause'); return True
StagePause ==
    /\ lpc = "pause"
    /\ Returns("True")
    /\ loopFrame

\* the task is cancelled, or KeyboardInterrupt is raised, at an await of main
RunInterrupted(e) ==
    /\ lpc \in Stages \ {"pause"}
    /\ Raises(e)
    /\ loopFrame

\* await asyncio.sleep(1) in the handler: over, or interrupted
SleepDone ==
    /\ lpc = "sleep"
    /\ lpc' = "prompt"
    /\ UNCHANGED <<prompts, run_outcome, exit_cause, passed, sinks>>
    /\ loopFrame

SleepInterrupted(e) ==
    /\ lpc = "sleep"
    /\ lpc' = "exited"
    /\ exit_cause' = e
    /\ UNCHANGED <<prompts, run_outcome, passed, sinks>>
    /\ loopFrame

NextLoop ==
    \/ \E input \in {"id", "EOFError", "KeyboardInterrupt"} : Prompt(input)
    \/ \E outcome \in {"ok", "TypeError"} : StageCheckCn(outcome)
    \/ \E outcome \in {"ok", "PermissionError", "ConnectionError"} :
          StageQuota(outcome)
    \/ \E outcome \in {"ok", "none"} : StageResolve(outcome)
    \/ \E outcome \in {"ok", "none"} : StageBranch(outcome)
    \/ \E outcome \in {"ok", "none"} : StageTree(outcome)
    \/ \E outcomes \in TreeOutcomes : StageItems(outcomes)
    \/ \E outcome \in {"ok", "Exception"} : StageSink(outcome)
    \/ StagePause
    \/ \E e \in Interrupts : RunInterrupted(e)
    \/ SleepDone
    \/ \E e \in Interrupts : SleepInterrupted(e)

----------------------------------------------------------------------------
(* Specifications *)

ResolveIdle ==
    /\ responses = [i \in Repos |-> FailedResponse]
    /\ results = [i \in Repos |-> Pending]
    /\ btask = [i \in Repos |-> "created"]
    /\ out_of_order = FALSE
    /\ rpc = "idle"
    /\ ri = 0
    /\ latest_date = NoneDate
    /\ selected_repo = 0

DownloaderIdle ==
    /\ IS_CN = FALSE
    /\ wanted = {}
    /\ cache_dir = FALSE
    /\ memory_cache = [k \in Keys |-> NoEntry]
    /\ disk_cache = [k \in Keys |-> NoEntry]
    /\ firstBytes = [k \in Keys |-> NoEntry]
    /\ FetchIdle

MergerIdle ==
    /\ config_file = MissingFile
    /\ temp_file = MissingFile
    /\ merge_tasks = {}
    /\ merge_inputs = {}
    /\ MergeIdle

AllocatorIdle ==
    /\ app_list = EmptyDir
    /\ initial_list = EmptyDir
    /\ scandir_iterable = FALSE
    /\ alloc_tasks = {}
    /\ AllocIdle

LimiterIdle ==
    /\ now = 0
    /\ q_cache = "None"
    /\ last_update = 0
    /\ QuotaIdle

\* a Key.vdf with every depot and its key
WholeKeyVdf ==
    [form |-> "depots",
     entries |-> [i \in 1..NumDepots |-> [id |-> i, kind |-> "key"]]]

ExtractorIdle ==
    /\ depotcache = [p \in ManifestPaths |-> NoEntry]
    /\ key_source = WholeKeyVdf
    /\ ExtractIdle

OthersIdle(self) ==
    /\ self = "resolve" \/ ResolveIdle
    /\ self \in {"fetch", "share"} \/ DownloaderIdle
    /\ self = "merge" \/ MergerIdle
    /\ self = "alloc" \/ AllocatorIdle
    /\ self = "quota" \/ LimiterIdle
    /\ self = "extract" \/ ExtractorIdle
    /\ self = "share" \/ ShareIdle
    /\ self = "loop" \/ LoopIdle

InitResolve == ResolveInit /\ OthersIdle("resolve")

SpecResolve == InitResolve /\ [][NextResolve]_vars

InitFetch == FetchInit /\ OthersIdle("fetch")

SpecFetch == InitFetch /\ [][NextFetch]_vars

InitMerge == MergeInit /\ OthersIdle("merge")

SpecMerge == InitMerge /\ [][NextMerge]_vars

InitAlloc == AllocInit /\ OthersIdle("alloc")

SpecAlloc == InitAlloc /\ [][NextAlloc]_vars

InitQuota == QuotaInit /\ OthersIdle("quota")

SpecQuota == InitQuota /\ [][NextQuota]_vars

InitExtract ==
    /\ ExtractInit
    /\ key_source \in {WholeKeyVdf, [form |-> "undecodable", entries |-> <<>>]}
    /\ OthersIdle("extract")

SpecExtract == InitExtract /\ [][NextExtract]_vars

InitKeyVdf ==
    /\ ExtractInit
    /\ depotcache = [p \in ManifestPaths |-> NoEntry]
    /\ OthersIdle("extract")

SpecKeyVdf == InitKeyVdf /\ [][NextKeyVdf]_vars

InitShare == ShareInit /\ OthersIdle("share")

SpecShare == InitShare /\ [][NextShare]_vars

InitLoop == LoopInit /\ OthersIdle("loop")

SpecLoop == InitLoop /\ [][NextLoop]_vars

----------------------------------------------------------------------------
(* C1 *)

WellFormed(i) == responses[i].kind = "commit"

\* the greatest authorDate among the well-formed responses
IsGreatestDate(i) ==
    /\ WellFormed(i)
    /\ \A j \in Repos :
          WellFormed(j) => ~StrGreater(responses[j].date, responses[i].date)

\* C1: when at least one candidate returns a well-formed commit, resolve returns
\* the earliest candidate in input order among those carrying the greatest
\* authorDate, together with that date.
C1_ResolveReturnsLatest ==
    (rpc = "done" /\ \E i \in Repos : WellFormed(i)) =>
        /\ selected_repo \in Repos
        /\ IsGreatestDate(selected_repo)
        /\ \A j \in Repos : IsGreatestDate(j) => selected_repo <= j
        /\ latest_date = responses[selected_repo].date

\* resolve has returned a candidate that shares the greatest date with a later one
C1_Witness ==
    /\ rpc = "done"
    /\ selected_repo \in Repos
    /\ \E j \in Repos :
          /\ j > selected_repo
          /\ WellFormed(j)
          /\ responses[j].date = responses[selected_repo].date
    /\ \E k \in Repos : WellFormed(k) /\ StrGreater(latest_date, responses[k].date)

----------------------------------------------------------------------------
(* C2 *)

RECURSIVE RequestsUpTo(_)
RequestsUpTo(n) == IF n = 0 THEN 0 ELSE reqCount[n] + RequestsUpTo(n - 1)

\* network requests issued by the get in progress
NetCalls == RequestsUpTo(NumCnUrls)

\* C2: a get of a key whose earlier get in this process succeeded returns the
\* bytes of that first success and issues no network request.
C2_RepeatedFetchHitsCache ==
    (fpc # "idle" /\ wasFetched) =>
        /\ fpc = "returned"
        /\ content = firstBytes[cache_key]
        /\ NetCalls = 0

\* a repeated get has returned after a get of another key came in between,
\* while the disk holds no faithful copy of the entry
C2_Witness ==
    /\ fpc = "returned"
    /\ wasFetched
    /\ \E k \in Keys \ {cache_key} : firstBytes[k] # NoEntry
    /\ disk_cache[cache_key] # content

----------------------------------------------------------------------------
(* C3 *)

InFlight == fpc \in {"while", "for"}

\* url_list without the URLs in gone, order kept
Candidates(gone) ==
    LET keep(u) == u \notin gone IN SelectSeq(url_list, keep)

C3_Rounds ==
    /\ rounds <= 3
    /\ \A u \in Urls : reqCount[u] <= 3
    \* within a round the candidates of the round are requested once each, in
    \* list order
    /\ fpc = "for" =>
          /\ round_urls = Candidates(notFound \ Range(roundReqs))
          /\ roundReqs = SubSeq(round_urls, 1, ui - 1)
    \* a URL that failed otherwise than by 404 is still a candidate
    /\ Range(current_errors) \subseteq Range(remaining_urls)
    /\ remaining_urls = Candidates(notFound)
    \* get ends in bytes or in an exception
    /\ fpc = "returned" => content \in Bytes \cup {Partial} /\ raised = "none"
    /\ fpc = "failed" => content = NoEntry /\ raised # "none"
    \* and never stops midway
    /\ InFlight =>
          ENABLED (RoundStart \/ RaiseFailure \/ DownloadError \/ RoundEnd)

\* grows with every step of a get in progress, and is bounded by C3_Rounds
Progress == 2 * rounds + NetCalls + (IF fpc = "while" THEN 1 ELSE 0)

C3_Step == (InFlight /\ InFlight') => Progress' > Progress

\* C3: on a cache miss get runs at most 3 rounds; a round requests every URL
\* still in the candidate set once, in list order; a URL failing otherwise than
\* by 404 stays a candidate; no URL is requested more than 3 times, and the
\* get always ends in returned bytes or in a failure.
C3_BoundedRounds == []C3_Rounds /\ [][C3_Step]_vars

\* the third round is under way with a URL being requested for the third time
\* after another URL dropped out
C3_Witness ==
    /\ fpc = "for"
    /\ rounds = 3
    /\ \E u \in Urls : reqCount[u] = 3
    /\ notFound # {}
    /\ Len(errors) >= 2

----------------------------------------------------------------------------
(* C4 *)

C4_State ==
    /\ notFound \cap Range(remaining_urls) = {}
    /\ Range(url_list) \ notFound \subseteq Range(remaining_urls)

C4_Step ==
    \A u \in Urls : reqCount'[u] > reqCount[u] => u \notin notFound

\* C4: a URL that answered 404 leaves the candidate set and is not requested
\* again during that get, while the other URLs stay candidates.
C4_NotFoundNeverRetried == []C4_State /\ [][C4_Step]_vars

\* a later round requests another URL again after one URL answered 404 in the
\* first round
C4_Witness ==
    /\ fpc = "for"
    /\ rounds >= 2
    /\ \E u \in notFound : reqCount[u] = 1
    /\ \E v \in Urls \ notFound : reqCount[v] >= 2

----------------------------------------------------------------------------
(* C5 *)

Downloaded == fpc = "returned" /\ NetCalls > 0

\* the requests of the last round stop at the URL that answered
StoppedAtSuccess ==
    /\ ui <= Len(round_urls)
    /\ roundReqs = SubSeq(round_urls, 1, ui)

\* C5 as stated: on the first successful response the bytes are in both cache
\* tiers, memory and disk, and are returned at once, no later URL being
\* requested.
C5_BothTiers ==
    Downloaded =>
        /\ memory_cache[cache_key] = content
        /\ disk_cache[cache_key] = content
        /\ StoppedAtSuccess

\* C5 amended: on the first successful response the bytes are in the memory
\* cache and are returned at once, no later URL being requested; they are in
\* the disk cache too when the Downloader has a cache directory and the disk
\* write did not fail.
C5_MemoryAndOptionalDisk ==
    Downloaded =>
        /\ content \in Bytes
        /\ memory_cache[cache_key] = content
        /\ (cache_dir /\ diskWrite = "ok") => disk_cache[cache_key] = content
        /\ ~cache_dir => disk_cache[cache_key] = NoEntry
        /\ StoppedAtSuccess

\* three mirrors tried in the first round: two errors, then 200; both tiers
\* hold the bytes
C5_Witness ==
    /\ Downloaded
    /\ rounds = 1
    /\ roundReqs = << 1, 2, 3 >>
    /\ current_errors = << 1, 2 >>
    /\ reqCount[4] = 0 /\ reqCount[5] = 0
    /\ cache_dir /\ diskWrite = "ok"
    /\ memory_cache[cache_key] = content
    /\ disk_cache[cache_key] = content

----------------------------------------------------------------------------
(* C6 *)

\* C6: get fails with a NotFound condition when the candidate set became empty
\* and with a NetworkExhausted condition when the rounds were used up, so that
\* the caller can tell the two apart.
C6_DistinctFailures ==
    (fpc = "failed" /\ raised # "CancelledError") =>
        raised = (IF remaining_urls = << >> THEN "NotFoundError"
                                             ELSE "NetworkExhausted")

----------------------------------------------------------------------------
(* C7 *)

\* i is the first Software key of doc that reads 'valve' when lowered
IsVendorNode(doc, i) ==
    /\ Lower(doc.software[i].key) = "valve"
    /\ \A j \in 1..(i - 1) : Lower(doc.software[j].key) # "valve"

\* reread is old with the entries of new set into the vendor node's depots
RoundTrip(old, new, reread) ==
    /\ reread.other = old.other
    /\ Len(reread.software) = Len(old.software)
    /\ \A i \in 1..Len(old.software) :
          IF IsVendorNode(old, i)
             THEN /\ reread.software[i].key = old.software[i].key
                  /\ reread.software[i].misc = old.software[i].misc
                  /\ reread.software[i].hasDepots
                  /\ \A d \in DepotIds :
                        reread.software[i].depots[d] =
                           IF new[d] # Absent THEN new[d]
                                              ELSE old.software[i].depots[d]
             ELSE reread.software[i] = old.software[i]

\* the keys a file holds, as paths below Software
KeysOf(file) ==
    IF file.kind # "text" THEN {}
    ELSE LET sw == Loads(file).software
         IN  {<< "other" >>}
             \cup {<< i, sw[i].key >> : i \in 1..Len(sw)}
             \cup {<< i, sw[i].key, "misc" >> : i \in 1..Len(sw)}
             \cup {<< i, sw[i].key, "depots" >> :
                      i \in {j \in 1..Len(sw) : sw[j].hasDepots}}
             \cup UNION {{<< i, sw[i].key, "depots", d >> :
                            d \in {e \in DepotIds : sw[i].depots[e] # Absent}} :
                         i \in 1..Len(sw)}

C7_Step ==
    /\ \A t \in Tasks :
          (mresult[t] # "True" /\ mresult'[t] = "True") =>
             /\ config_file.kind = "text"
             /\ config_file'.kind = "text"
             /\ RoundTrip(Loads(config_file), depots_config[t],
                          Loads(config_file'))
    /\ KeysOf(config_file) \subseteq KeysOf(config_file')

\* C7: when depotkey_merge returns True, re-reading config.vdf yields the old
\* document with the vendor node's depots being the union of the prior and the
\* new entries, the new entry winning on every colliding depot id, and every
\* other key unchanged; no step of a merge deletes a key of the file.
C7_MergeRoundTrip == [][C7_Step]_vars

\* two merges in a row collided on depot 1, the later entry is in the file, and
\* depot 2 of the original document is kept
C7_Witness ==
    /\ mresult["t1"] = "True" /\ mresult["t2"] = "True"
    /\ depots_config["t1"][1] = "k1"
    /\ depots_config["t2"][1] = "k2"
    /\ config_file.kind = "text"
    /\ Loads(config_file).software[1].depots[1] = "k2"
    /\ Loads(config_file).software[1].depots[2] # Absent
    /\ Loads(config_file).software[1].key = "VALVE"

----------------------------------------------------------------------------
(* C8 *)

WriteFailures == {"open error", "write error", "replace error"}

C8_Step ==
    \* the original path changes only by the rename of the complete new document
    /\ config_file' # config_file =>
          \E t \in Tasks :
             /\ lock = t
             /\ mpc[t] = "replace"
             /\ config_file.kind = "text"
             /\ config[t] = MergedDocument(Loads(config_file), depots_config[t])
             /\ config_file' = Dumps(config[t])
    \* a failed write has removed the temporary file when the call ends
    /\ \A t \in Tasks :
          (cause[t] \notin WriteFailures /\ cause'[t] \in WriteFailures) =>
             /\ temp_file' = MissingFile
             /\ config_file' = config_file
             /\ mresult'[t] = "False"

\* C8: at every point during and after a merge config.vdf holds the complete
\* old document or the complete new one, never a partial one, and when the
\* write fails the temporary sibling file is gone when the call ends.
C8_AtomicWriteBack == [](config_file.kind # "partial") /\ [][C8_Step]_vars

\* the write of the temporary file failed partway: the old document is still in
\* place, the merged one differs from it, and no temporary file is left
C8_Witness ==
    /\ mpc["t1"] = "done"
    /\ cause["t1"] = "write error"
    /\ mresult["t1"] = "False"
    /\ temp_file = MissingFile
    /\ config_file.kind = "text" /\ config_file.fmt = "steam"
    /\ config["t1"] # Loads(config_file)

----------------------------------------------------------------------------
(* C9 *)

\* C9: depotkey_merge never raises: every call ends by returning True, or
\* False when anything failed or interrupted it.
C9_NeverRaises ==
    \A t \in Tasks :
       mpc[t] = "done" =>
          mresult[t] = (IF cause[t] = "none" THEN "True" ELSE "False")

----------------------------------------------------------------------------
(* C10 *)

Raised == {"CancelledError", "KeyboardInterrupt", "OSError"}

\* some key under Software reads 'valve' when lowered
HasVendorKey(doc) ==
    \E i \in 1..Len(doc.software) : Lower(doc.software[i].key) = "valve"

FailsFast ==
    \/ config_file.kind = "missing"
    \/ config_file.kind = "text" /\ ~HasVendorKey(Loads(config_file))

C10_Step ==
    \* a call that finds no file or no vendor node goes no further than the
    \* lookup and returns False, both files as they were
    /\ \A t \in Tasks :
          (lock = t /\ FailsFast /\ mpc'[t] # mpc[t]) =>
             /\ mpc'[t] \in {"read", "done"}
             /\ mpc'[t] = "read" => config_file.kind = "text"
             /\ (mpc'[t] = "done" /\ mresult'[t] \notin Raised) =>
                   /\ mresult'[t] = "False"
                   /\ cause'[t] \in {"missing file", "no vendor node",
                                     "read error", "interrupt"}
             /\ config_file' = config_file
             /\ temp_file' = temp_file
    \* the files are touched only by a call that got past the lookup
    /\ (config_file' # config_file \/ temp_file' # temp_file) =>
          \E t \in Tasks :
             /\ lock = t
             /\ mpc[t] \in {"open", "write", "replace"}
             /\ ~FailsFast

\* C10: when config.vdf does not exist, or no key of Software matches 'valve'
\* case-insensitively, depotkey_merge returns False and neither config.vdf nor
\* the temporary file is created or modified.
C10_FailsFast == [][C10_Step]_vars

\* the call found no vendor node among the Software keys and returned False;
\* a temporary file left over from an earlier run is still as it was
C10_Witness ==
    /\ mpc["t1"] = "done"
    /\ mresult["t1"] = "False"
    /\ cause["t1"] = "no vendor node"
    /\ config_file = SteamFile(Document(<< Node("Other", FALSE, EmptyMap) >>))
    /\ temp_file = PartialFile

----------------------------------------------------------------------------
(* C11 *)

\* the positions of depotkey_merge inside the async with block
InMerge == {"exists", "read", "open", "write", "replace"}

C11_State ==
    \* one call at a time is between its existence check and its return
    /\ \A t \in Tasks : mpc[t] \in InMerge => lock = t
    /\ \A t, u \in Tasks : (mpc[t] \in InMerge /\ mpc[u] \in InMerge) => t = u
    \* two calls that both returned True left both their entries in the file
    /\ (\A t \in Tasks : mresult[t] = "True") =>
          /\ config_file.kind = "text"
          /\ LET sw == Loads(config_file).software
                 vendor == sw[VendorIndex(sw)]
             IN  \A d \in DepotIds :
                    (\E t \in Tasks : depots_config[t][d] # Absent) =>
                       \E t \in Tasks : /\ depots_config[t][d] # Absent
                                        /\ vendor.depots[d] = depots_config[t][d]

C11_Step ==
    \* a call reads config.vdf only while no other call is under way, and the
    \* file does not change between its read and its return
    \A t \in Tasks :
       (mpc[t] \in InMerge \ {"exists"}) =>
          (config_file' # config_file => mpc[t] = "replace" /\ mpc'[t] = "done")

\* C11: two calls of depotkey_merge in one process never interleave: a call
\* reads config.vdf only after the call before it has finished its
\* read-modify-write or failed, and the entries of neither call are lost.
C11_MergesSerialized == []C11_State /\ [][C11_Step]_vars

\* both calls returned True with entries for different depots, and both
\* entries are in the file
C11_Witness ==
    /\ \A t \in Tasks : mpc[t] = "done" /\ mresult[t] = "True"
    /\ depots_config["t1"][1] = "k1" /\ depots_config["t1"][2] = Absent
    /\ depots_config["t2"][2] = "k2" /\ depots_config["t2"][1] = Absent
    /\ config_file.kind = "text"
    /\ Loads(config_file).software[1].depots[1] = "k1"
    /\ Loads(config_file).software[1].depots[2] = "k2"

----------------------------------------------------------------------------
(* C12 *)

\* the positions of greenluma_add between its call and its return
InAlloc == {"makedirs", "clear", "scan", "alloc"}

\* C12: greenluma_add runs under the process-wide lock of unlock.py: a call
\* under way holds the lock, and no two calls are under way at once.
C12_AllocLocked ==
    /\ \A t \in Tasks : apc[t] \in InAlloc => unlock_lock = t
    /\ \A t, u \in Tasks : (apc[t] \in InAlloc /\ apc[u] \in InAlloc) => t = u

----------------------------------------------------------------------------
(* C13 *)

\* ways a call ends that the file system or the user brought about
EnvFailures == {"oserror", "cancelled", "ValueError"}

SlotsOf(v) == {i \in Indices : app_list[i] = v}

\* C13: after two successive calls greenluma_add([v]), neither disturbed by a
\* disk error or a cancellation, exactly one slot file holds v.
C13_Idempotent ==
    \A v \in AppIds :
       (/\ ~overlapped
        /\ \A t \in Tasks : /\ apc[t] = "done"
                            /\ depot_id_list[t] = << v >>
                            /\ acause[t] \notin EnvFailures)
       => Cardinality(SlotsOf(v)) = 1

----------------------------------------------------------------------------
(* C14 *)

\* the smallest non-negative integer that is no slot index of dir
SmallestFree(dir) ==
    CHOOSE i \in Indices :
       /\ dir[i] = NoFile
       /\ \A j \in 0..(i - 1) : dir[j] # NoFile

RECURSIVE Allocated(_, _, _)
\* dir after the values ids[k], ids[k+1], ... were given slots as C14 says
Allocated(dir, ids, k) ==
    IF k > Len(ids) THEN dir
    ELSE IF ids[k] \in DictValues(dir) THEN Allocated(dir, ids, k + 1)
    ELSE Allocated([dir EXCEPT ![SmallestFree(dir)] = ids[k]], ids, k + 1)

\* C14: a call of greenluma_add that no disk error or cancellation disturbed
\* returns True and has given every requested value not yet present the
\* smallest unused slot index, in call order; greenluma_add([5, 7]) on an
\* empty AppList leaves 0.txt holding 5 and 1.txt holding 7.
C14_LowestFreeIndex ==
    (/\ alloc_tasks = {"t1"}
     /\ apc["t1"] = "done"
     /\ acause["t1"] \notin EnvFailures)
    => /\ aresult["t1"] = "True"
       /\ app_list = Allocated(initial_list, depot_id_list["t1"], 1)

----------------------------------------------------------------------------
(* C15 *)

C15_Step ==
    \A i \in Indices : app_list[i] \in AppIds => app_list'[i] = app_list[i]

----------------------------------------------------------------------------
(* C16 *)

\* age of the cached snapshot
Age == now - last_update

C16_Step ==
    (/\ qpc = "idle" /\ qpc' # "idle"
     /\ q_cache = "snapshot"
     /\ Age < CACHE_EXPIRE_TIME)
    => /\ qpc' = "done"
       /\ qresult' = "returned"
       /\ used_cache'
       /\ qreqs' = 0

\* C16: a call of check_github_api_rate_limit that finds a cached snapshot
\* younger than 60 time units returns from it and issues no request.
C16_FreshCacheNoRequest ==
    [](used_cache => (qreqs = 0 /\ q_cache = "snapshot")) /\ [][C16_Step]_vars

\* a call returned from a snapshot that an earlier call stored 59 time units ago
C16_Witness ==
    /\ qpc = "done"
    /\ used_cache
    /\ qresult = "returned"
    /\ qreqs = 0
    /\ q_cache = "snapshot"
    /\ Age = CACHE_EXPIRE_TIME - 1

----------------------------------------------------------------------------
(* C17 *)

C17_Step ==
    (qreqs' = qreqs + 1 /\ last_outcome'.status \in {401, 403})
    => /\ qpc' = "done"
       /\ qresult' = "PermissionError"
       /\ qwaits' = qwaits
       /\ q_cache' = q_cache
       /\ last_update' = last_update

\* C17: a request answered with HTTP 401 or 403 ends the call at once with
\* PermissionError: no further request, no sleep, no snapshot stored.
C17_AuthFailsFast == [][C17_Step]_vars

----------------------------------------------------------------------------
(* C18 *)

C18_State ==
    /\ qreqs <= 3
    /\ qresult = "ConnectionError" =>
          /\ qreqs = 3
          /\ (last_outcome = TransportError \/ last_outcome.body = "notjson")
    /\ qresult = "PermissionError" => last_outcome.status \in {401, 403}

C18_Step ==
    (qreqs' = qreqs + 1 /\ last_outcome' = TransportError)
    => IF qreqs' < 3
          THEN /\ qpc' = "sleep"
               /\ qwait' = 2 ^ qreqs'
               /\ qwaits' = Append(qwaits, 2 ^ qreqs')
               /\ qresult' = "none"
          ELSE /\ qpc' = "done"
               /\ qresult' = "ConnectionError"
               /\ qwaits' = qwaits

\* C18: a call issues at most 3 requests whatever they end in; a transport
\* failure of attempt 0 or 1 is followed by a sleep of 2^(attempt+1) (2, then
\* 4), one of the last attempt by no sleep but by ConnectionError, which is
\* not the PermissionError of an authentication failure.
C18_BoundedAttempts == []C18_State /\ [][C18_Step]_vars

\* three transport failures in a row: sleeps of 2 and 4, then ConnectionError
C18_Witness ==
    /\ qpc = "done"
    /\ qresult = "ConnectionError"
    /\ qreqs = 3
    /\ qwaits = << 2, 4 >>
    /\ last_outcome = TransportError

----------------------------------------------------------------------------
(* C19 *)

\* the candidate's lookup returned a response with commit metadata
Qualifies(i) == responses[i].kind = "commit"

----------------------------------------------------------------------------
(* C20 *)

C20_Step ==
    \* a call for a manifest whose file exists returns [] at once
    /\ \A p \in ManifestPaths :
          (epc[p] = "idle" /\ epc'[p] # "idle" /\ depotcache[p] # NoEntry) =>
             /\ epc'[p] = "done"
             /\ eresult'[p] = "[]"
             /\ efetches'[p] = 0
             /\ depotcache' = depotcache
    \* get is called and the file is written only where no file was
    /\ \A p \in ManifestPaths :
          depotcache[p] # NoEntry =>
             /\ efetches'[p] <= efetches[p]
             /\ depotcache'[p] = depotcache[p]

\* C20: get_manifest for a path ending in .manifest whose file exists in
\* depotcache calls get not once, leaves the file as it is, and returns [].
C20_ExistingManifestSkipped == [][C20_Step]_vars

\* the tree was processed a second time: manifest 1, written by the first
\* pass, was skipped without a fetch, while manifest 2 was fetched and written
C20_Witness ==
    /\ epc[1] = "done" /\ eresult[1] = "[]" /\ efetches[1] = 0
    /\ depotcache[1] \in Bytes
    /\ epc[2] = "done" /\ eresult[2] = "[]" /\ efetches[2] = 1
    /\ depotcache[2] \in Bytes

----------------------------------------------------------------------------
(* C21 *)

\* the first entry of the 'depots' section without a 'DecryptionKey'
Offending(entries) ==
    LET bad == {i \in 1..Len(entries) : entries[i].kind # "key"}
    IN  entries[CHOOSE i \in bad : \A j \in bad : i <= j].id

\* the call for Key.vdf ended after get had returned the file
Parsed ==
    /\ epc[KeyVdfPath] = "done"
    /\ eresult[KeyVdfPath] \notin {"Exception", "CancelledError"}

LacksKey(c) ==
    /\ c.form = "depots"
    /\ \E i \in 1..Len(c.entries) : c.entries[i].kind # "key"

\* C21: get_manifest on a Key.vdf in which an entry of 'depots' has no
\* 'DecryptionKey' raises a format error, names the depot of that entry, and
\* returns no list.
C21_MissingKeyNamed ==
    (Parsed /\ LacksKey(key_source)) =>
       /\ eresult[KeyVdfPath] \in {"ValueError", "KeyError"}
       /\ named_depot = Offending(key_source.entries)
       /\ collected_depots = <<>>

----------------------------------------------------------------------------
(* C22 *)

\* the selection loop run over the responses in the input order of the
\* candidates, from candidate i on
RECURSIVE SelectFrom(_, _, _, _)
SelectFrom(resp, i, latest, selected) ==
    IF i > NumRepos
       THEN <<selected, latest>>
       ELSE IF HasCommit(resp[i]) /\ Newer(resp[i].date, latest)
               THEN SelectFrom(resp, i + 1, resp[i].date, i)
               ELSE SelectFrom(resp, i + 1, latest, selected)

C22_State ==
    \* the selection starts when every candidate's request was answered
    /\ rpc \in {"loop", "done"} => \A i \in Repos : btask[i] = "done"
    \* the result is that of the candidates' responses in input order
    /\ rpc = "done" =>
          <<selected_repo, latest_date>> = SelectFrom(responses, 1, NoneDate, 0)

C22_Step ==
    \* a candidate's request is sent once, whatever the other tasks have done
    /\ \A i \in Repos : btask[i] = "sent" => btask'[i] \in {"sent", "done"}
    /\ \A i \in Repos : btask[i] = "done" => btask'[i] = "done"

\* C22: get_latest_repo_info sends one branch request per candidate, all of
\* them concurrently, and what it returns is the same for every order the
\* requests complete in: it is the selection over the responses in the input
\* order of the candidates.
C22_CompletionOrderIrrelevant == []C22_State /\ [][C22_Step]_vars

\* every request was in flight at once
C22_AllInFlight == \A i \in Repos : btask[i] = "sent"

\* the first candidate was selected although its request completed after a
\* later candidate's
C22_Witness ==
    /\ rpc = "done"
    /\ out_of_order
    /\ selected_repo = 1
    /\ \E i \in Repos : i > 1 /\ HasCommit(responses[i])

----------------------------------------------------------------------------
(* C23 *)

AllSucceeded ==
    \A t \in alloc_tasks : apc[t] = "done" /\ aresult[t] = "True"

----------------------------------------------------------------------------
(* C24 *)

\* C24: a greenluma_add call that a cancellation reached at one of its awaits
\* ends by raising it to its caller, never by returning a result.
C24_CancellationPropagates ==
    \A t \in Tasks :
       (apc[t] = "done" /\ acause[t] = "cancelled") =>
          aresult[t] \notin {"True", "False"}

----------------------------------------------------------------------------
(* C25 *)

C25_Step ==
    \A p \in ManifestPaths :
       (epc[p] = "write" /\ eresult'[p] = "CancelledError") =>
          ~(depotcache'[p] = Partial /\ Exists(depotcache'[p]))

\* C25: when a cancellation interrupts get_manifest while it writes a
\* manifest, the file cut short is removed or is not one a later call takes
\* for a downloaded manifest.
C25_PartialNotAuthoritative == [][C25_Step]_vars

----------------------------------------------------------------------------
(* C26 *)

\* every value of the list has its file
FullyWritten(ids) ==
    \A k \in 1..Len(ids) : \E i \in Indices : app_list[i] = ids[k]

----------------------------------------------------------------------------
(* C27 *)

InMemory(mc) == {k \in Keys : mc[k] # NoEntry}
OnDisk(dc) == {k \in Keys : dc[k] # NoEntry}

\* C27 as stated: the keys of the memory map are a superset of the keys with
\* an entry on disk.
C27_MemorySupersetOfDisk ==
    cache_dir => OnDisk(disk_cache) \subseteq InMemory(memory_cache)

C27_State ==
    \* the key of a get that returned is in the memory map
    fpc = "returned" => cache_key \in InMemory(memory_cache)

C27_Step ==
    \* a key whose disk entry this Downloader writes is in the memory map
    /\ \A k \in Keys :
          disk_cache'[k] # disk_cache[k] => k \in InMemory(memory_cache')
    \* and the memory map never loses a key
    /\ InMemory(memory_cache) \subseteq InMemory(memory_cache')

\* C27 amended: the memory map holds every key whose disk entry this
\* Downloader has written or read, and never loses a key; entries that an
\* earlier process left on disk are not in it until they are read.
C27_MemoryCoversOwnDiskEntries == []C27_State /\ [][C27_Step]_vars

\* key 1 was downloaded and is in both tiers, while key 2, left on disk by
\* an earlier process, is not in the memory map
C27_Witness ==
    /\ cache_dir
    /\ Downloaded /\ cache_key = 1 /\ diskWrite = "ok"
    /\ memory_cache[1] = content /\ disk_cache[1] = content
    /\ disk_cache[2] # NoEntry /\ memory_cache[2] = NoEntry

----------------------------------------------------------------------------
(* C28 *)

C28_Step ==
    \A k \in Keys :
       memory_cache[k] # NoEntry =>
          /\ memory_cache'[k] = memory_cache[k]
          /\ cache_writes'[k] = cache_writes[k]

\* C28: once the cache entry of a key has been written it is not written
\* again and not replaced, in any interleaving of concurrent calls of get,
\* two calls for the same key that both missed the cache included.
C28_EntryWrittenOnce == [][C28_Step]_vars

----------------------------------------------------------------------------
(* C29 *)

C29_State ==
    \* main_loop ends only on a user interrupt or the end of the input
    /\ lpc = "exited" => exit_cause \in Interrupts \cup {"EOFError"}
    \* after a run that ended otherwise, the next identifier can be asked for
    /\ (lpc = "prompt" /\ prompts < MaxPrompts) => ENABLED Prompt("id")
    /\ lpc = "sleep" => ENABLED SleepDone

C29_Step ==
    \* a run of main that ends in True, False or an exception is followed by
    \* the prompt, after a second of sleep where it raised
    /\ (lpc \in Stages /\ lpc' \notin Stages /\ run_outcome' \notin Interrupts) =>
          /\ run_outcome' \in {"True", "False"} \cup Exceptions
          /\ lpc' = IF run_outcome' \in Exceptions THEN "sleep" ELSE "prompt"
    \* and nothing but an interrupt keeps the sleep from reaching the prompt
    /\ lpc = "sleep" => lpc' = "prompt" \/ (lpc' = "exited" /\ exit_cause' \in Interrupts)

\* C29: after a run of main for one identifier that ends in success, in False
\* or in an exception other than a cancellation, main_loop asks for the next
\* identifier; main_loop ends only on a user interrupt or the end of input.
C29_LoopContinues == []C29_State /\ [][C29_Step]_vars

\* the run for the second identifier raised PermissionError; main_loop logged
\* it, slept, and is at the prompt for the third
C29_Witness ==
    /\ lpc = "prompt"
    /\ prompts = 2
    /\ run_outcome = "PermissionError"

----------------------------------------------------------------------------
(* C30 *)

C30_State ==
    \* a call all of whose requests were answered with a status other than
    \* 200, 401 and 403 returns, after 3 requests at most
    (qpc = "done" /\ qreqs > 0 /\ all_refused /\ qresult # "CancelledError") =>
       /\ qresult = "returned"
       /\ qreqs <= MaxRetries

C30_Step ==
    \* the snapshot and its timestamp change only on a 200
    (q_cache' # q_cache \/ last_update' # last_update) =>
       /\ qreqs' = qreqs + 1
       /\ last_outcome'.status = 200

\* C30: a call of check_github_api_rate_limit whose every request is answered
\* with a status other than 200, 401 and 403 ends after at most 3 requests by
\* returning, and leaves the cached snapshot and its timestamp as they were;
\* the cache is written on a 200 only.
C30_RefusalsReturn == []C30_State /\ [][C30_Step]_vars

----------------------------------------------------------------------------
(* C31 *)

\* the second greenluma_add call of handle_green_luma returns True, the
\* first, made for the app id alone, having returned True before it began
SinkCompletes ==
    /\ ~overlapped
    /\ apc["t1"] = "done" /\ aresult["t1"] = "True"
    /\ Len(depot_id_list["t1"]) = 1
    /\ apc["t2"] # "done"
    /\ apc'["t2"] = "done" /\ aresult'["t2"] = "True"

C31_Step ==
    SinkCompletes =>
       \A v \in Range(depot_id_list["t1"]) \cup Range(depot_id_list["t2"]) :
          \E i \in Indices : app_list'[i] = v

----------------------------------------------------------------------------
(* C32 *)

\* what this run of main must have behind it once a sink is called
SinkPreconditions ==
    /\ {"quota", "resolve", "items"} \subseteq passed
    /\ tree_results # <<>>
    /\ \A i \in DOMAIN tree_results : tree_results[i] # "fails"
    /\ \E i \in DOMAIN tree_results : tree_results[i] = "records"

ArtifactFailed == \E i \in DOMAIN tree_results : tree_results[i] = "fails"

C32_State ==
    /\ (sinks # {} \/ lpc \in Sinks) => SinkPreconditions
    /\ ArtifactFailed => sinks = {} /\ lpc \notin Sinks

C32_Step == lpc' \in Sinks /\ lpc' # lpc => SinkPreconditions'

\* C32: a run of main calls a sink only after the quota check returned, a
\* source was resolved and every tree entry's task completed without error
\* with at least one record among them; when the task of any tree entry
\* fails, the run calls no sink.
C32_SinksOnlyAfterFullExtraction == []C32_State /\ [][C32_Step]_vars

\* one tree entry gave records and another failed, with a sink installed:
\* main has raised and main_loop sleeps, no sink called
C32_Witness ==
    /\ lpc = "sleep"
    /\ run_outcome = "Exception"
    /\ is_steam_tools \/ is_green_luma
    /\ \E i, j \in DOMAIN tree_results :
          tree_results[i] = "fails" /\ tree_results[j] = "records"
    /\ sinks = {}

====
